---------------------------- MODULE Spec2Model ----------------------------
(***************************************************************************)
(* A model of helix-assist's completion request lifecycle                  *)
(* (internal/handlers/completions.go), of its text-window extractor and    *)
(* response assembler, and of the Ollama provider's candidate cleaner.     *)
(*                                                                         *)
(* Go strings are modelled as sequences of one-character strings, so that  *)
(* slicing, trimming, splitting and searching are computed as the code     *)
(* computes them.  Go's 0-based offsets are kept: Slice(s, i, j) is        *)
(* s[i:j].                                                                 *)
(***************************************************************************)
EXTENDS Integers, Sequences, FiniteSets, TLC

(***************************************************************************)
(* Go's strings package, as far as the modelled code uses it.              *)
(***************************************************************************)
MinOf(S) == CHOOSE x \in S : \A y \in S : x <= y

MaxOf(S) == CHOOSE x \in S : \A y \in S : x >= y

minInt(a, b) == IF a < b THEN a ELSE b

maxInt(a, b) == IF a > b THEN a ELSE b

\* s[i:j]
Slice(s, i, j) == SubSeq(s, i + 1, j)

\* the characters unicode.IsSpace accepts: tab, newline, vertical tab, form
\* feed, carriage return, space, U+0085 and U+00A0, and the wider ones
\* (U+1680, U+2000 to U+200A, U+2028, U+2029, U+202F, U+205F, U+3000), each
\* of which is one character here under the name of its code point
WhiteSpace ==
    {" ", "\t", "\n", "\r", "\f", "", "", " ",
     "U+1680", "U+2000", "U+2001", "U+2002", "U+2003", "U+2004", "U+2005", "U+2006",
     "U+2007", "U+2008", "U+2009", "U+200A", "U+2028", "U+2029", "U+202F", "U+205F", "U+3000"}

\* strings.TrimLeft(s, cutset)
TrimLeft(s, cutset) ==
    LET keep == {i \in 1..Len(s) : s[i] \notin cutset}
    IN  IF keep = {} THEN <<>> ELSE SubSeq(s, MinOf(keep), Len(s))

\* strings.TrimRight(s, cutset)
TrimRight(s, cutset) ==
    LET keep == {i \in 1..Len(s) : s[i] \notin cutset}
    IN  IF keep = {} THEN <<>> ELSE SubSeq(s, 1, MaxOf(keep))

\* strings.Trim(s, cutset)
Trim(s, cutset) == TrimRight(TrimLeft(s, cutset), cutset)

\* strings.TrimSpace(s)
TrimSpace(s) == Trim(s, WhiteSpace)

\* strings.HasPrefix(s, prefix)
HasPrefix(s, prefix) ==
    Len(prefix) <= Len(s) /\ SubSeq(s, 1, Len(prefix)) = prefix

\* strings.HasSuffix(s, suffix)
HasSuffix(s, suffix) ==
    Len(suffix) <= Len(s) /\ SubSeq(s, Len(s) - Len(suffix) + 1, Len(s)) = suffix

\* strings.TrimPrefix(s, prefix)
TrimPrefix(s, prefix) ==
    IF HasPrefix(s, prefix) THEN Slice(s, Len(prefix), Len(s)) ELSE s

\* strings.Index(s, substr): the 0-based offset of the first occurrence, or -1
Index(s, substr) ==
    LET at == {i \in 0..(Len(s) - Len(substr)) : Slice(s, i, i + Len(substr)) = substr}
    IN  IF at = {} THEN -1 ELSE MinOf(at)

\* strings.Contains(s, substr)
Contains(s, substr) == Index(s, substr) # -1

\* strings.Split(s, "\n"): never empty; Split("", "\n") is one empty line
RECURSIVE SplitLines(_)
SplitLines(s) ==
    LET i == Index(s, <<"\n">>)
    IN  IF i = -1 THEN <<s>>
        ELSE <<Slice(s, 0, i)>> \o SplitLines(Slice(s, i + 1, Len(s)))

\* strings.Join(lines, "\n")
RECURSIVE JoinLines(_)
JoinLines(lines) ==
    IF Len(lines) = 0 THEN <<>>
    ELSE IF Len(lines) = 1 THEN lines[1]
    ELSE lines[1] \o <<"\n">> \o JoinLines(Tail(lines))

\* strings.Fields(s): the maximal runs of non-space characters
RECURSIVE Fields(_)
Fields(s) ==
    LET t == TrimLeft(s, WhiteSpace)
        sp == {i \in 1..Len(t) : t[i] \in WhiteSpace}
    IN  IF t = <<>> THEN <<>>
        ELSE IF sp = {} THEN <<t>>
        ELSE <<SubSeq(t, 1, MinOf(sp) - 1)>> \o Fields(SubSeq(t, MinOf(sp), Len(t)))

\* unicode.ToLower on one character (ASCII)
LowerOf(c) ==
    CASE c = "A" -> "a" []
      c = "B" -> "b" []
      c = "C" -> "c" []
      c = "D" -> "d" []
      c = "E" -> "e" []
      c = "F" -> "f" []
      c = "G" -> "g" []
      c = "H" -> "h" []
      c = "I" -> "i" []
      c = "J" -> "j" []
      c = "K" -> "k" []
      c = "L" -> "l" []
      c = "M" -> "m" []
      c = "N" -> "n" []
      c = "O" -> "o" []
      c = "P" -> "p" []
      c = "Q" -> "q" []
      c = "R" -> "r" []
      c = "S" -> "s" []
      c = "T" -> "t" []
      c = "U" -> "u" []
      c = "V" -> "v" []
      c = "W" -> "w" []
      c = "X" -> "x" []
      c = "Y" -> "y" []
      c = "Z" -> "z" []
      OTHER -> c

\* strings.ToLower(s), on the letters the model uses
ToLower(s) == [i \in 1..Len(s) |-> LowerOf(s[i])]


(***************************************************************************)
(* Text-Window Extractor: util.GetContent.                                 *)
(***************************************************************************)
\* the line index after the two clamps of GetContent
ClampLine(lines, line) ==
    LET l0 == IF line < 0 THEN 0 ELSE line
    IN  IF l0 >= Len(lines) THEN Len(lines) - 1 ELSE l0

\* lines[line][column:] with column < 0 is a slice-bounds panic
GetContentPanics(contents, line, column) == column < 0

GetContent(contents, line, column) ==
    LET lines == SplitLines(contents)
        ln == ClampLine(lines, line)
        cur == lines[ln + 1]
        cut == IF column >= 0 /\ column < Len(cur) THEN Slice(cur, 0, column) ELSE cur
        beforeLines == [i \in 1..(ln + 1) |-> IF i = ln + 1 THEN cut ELSE lines[i]]
        contentBefore == JoinLines(beforeLines)
    IN  [ContentBefore |-> contentBefore,
         ContentAfter |-> IF ln + 1 < Len(lines)
                          THEN JoinLines(SubSeq(lines, ln + 2, Len(lines)))
                          ELSE <<>>,
         LastCharacter |-> IF Len(contentBefore) > 0
                           THEN <<contentBefore[Len(contentBefore)]>>
                           ELSE <<>>,
         LastLine |-> cut,
         ContentImmediatelyAfter |-> IF column >= 0 /\ column < Len(cur)
                                     THEN Slice(cur, column, Len(cur))
                                     ELSE <<>>]

(***************************************************************************)
(* The skip filter: CompletionHandler.shouldSkip.                          *)
(***************************************************************************)
\* shouldSkip without the test of the character before the cursor
shouldSkip_NoDot(content) ==
    LET lastLine == TrimSpace(content.LastLine)
    IN  \/ HasPrefix(lastLine, <<"/", "/">>)
        \/ HasPrefix(lastLine, <<"#">>)
        \/ lastLine = <<>>
        \/ Len(lastLine) < 2

\* shouldSkip without the tests of an empty or short line
shouldSkip_AllowsBlank(content) ==
    LET lastLine == TrimSpace(content.LastLine)
    IN  \/ content.LastCharacter = <<".">>
        \/ HasPrefix(lastLine, <<"/", "/">>)
        \/ HasPrefix(lastLine, <<"#">>)

shouldSkip(content) ==
    LET lastLine == TrimSpace(content.LastLine)
    IN  \/ content.LastCharacter = <<".">>
        \/ HasPrefix(lastLine, <<"/", "/">>)
        \/ HasPrefix(lastLine, <<"#">>)
        \/ lastLine = <<>>
        \/ Len(lastLine) < 2

(***************************************************************************)
(* Response Assembler: findOverlapSuffix and buildCompletionItem.          *)
(***************************************************************************)
\* findOverlapSuffix counting up from 1 and returning the first length that
\* matches
findOverlapSuffix_Shortest(hint, suffix) ==
    IF suffix = <<>> THEN 0
    ELSE LET h == TrimRight(hint, {" ", "\t"})
             maxOverlap == minInt(Len(h), Len(suffix))
             hits == {i \in 1..maxOverlap :
                        Slice(h, Len(h) - i, Len(h)) = Slice(suffix, 0, i)}
         IN  IF hits = {} THEN 0 ELSE MinOf(hits)

findOverlapSuffix(hint, suffix) ==
    IF suffix = <<>> THEN 0
    ELSE LET h == TrimRight(hint, {" ", "\t"})
             maxOverlap == minInt(Len(h), Len(suffix))
             hits == {i \in 1..maxOverlap :
                        Slice(h, Len(h) - i, Len(h)) = Slice(suffix, 0, i)}
         IN  IF hits = {} THEN 0 ELSE MaxOf(hits)

\* the label's display width
LabelWidth == 40

\* the hint as buildCompletionItem inserts it: trimmed, and with an echoed
\* copy of the cursor line removed
ItemText(hint, content) ==
    LET h1 == TrimRight(TrimLeft(hint, {"\n"}), {" ", "\t", "\n"})
        lastLineTrimmed == TrimSpace(content.LastLine)
    IN  IF lastLineTrimmed # <<>> /\ HasPrefix(TrimSpace(h1), lastLineTrimmed)
        THEN TrimSpace(Slice(h1, Len(lastLineTrimmed), Len(h1)))
        ELSE h1

\* buildCompletionItem adding the cursor column to the end column also when
\* the insertion ends on a later line
buildCompletionItem_ColumnAlways(hint, content, position, index) ==
    LET h == ItemText(hint, content)
        lines == SplitLines(h)
        endLine == position.Line + Len(lines) - 1
        endChar == Len(lines[Len(lines)]) + position.Character
        label0 == <<"A", "I", ":", " ">> \o lines[1]
        label == IF Len(label0) > LabelWidth
                 THEN Slice(label0, 0, LabelWidth) \o <<".", ".", ".">>
                 ELSE label0
        overlapLen == findOverlapSuffix(h, content.ContentImmediatelyAfter)
    IN  [Label |-> label,
         Detail |-> h,
         TextEdit |-> [Start |-> position, End |-> position, NewText |-> h],
         SortText |-> <<>>,
         Preselect |-> TRUE,
         AdditionalTextEdits |->
            IF overlapLen > 0
            THEN <<[Start |-> [Line |-> endLine, Character |-> endChar],
                    End |-> [Line |-> endLine, Character |-> endChar + overlapLen],
                    NewText |-> <<>>]>>
            ELSE <<>>]

\* buildCompletionItem placing the deletion at the cursor, where the
\* overlapping text stands before the insertion
buildCompletionItem_DeleteAtCursor(hint, content, position, index) ==
    LET h == ItemText(hint, content)
        lines == SplitLines(h)
        label0 == <<"A", "I", ":", " ">> \o lines[1]
        label == IF Len(label0) > LabelWidth
                 THEN Slice(label0, 0, LabelWidth) \o <<".", ".", ".">>
                 ELSE label0
        overlapLen == findOverlapSuffix(h, content.ContentImmediatelyAfter)
    IN  [Label |-> label,
         Detail |-> h,
         TextEdit |-> [Start |-> position, End |-> position, NewText |-> h],
         SortText |-> <<>>,
         Preselect |-> TRUE,
         AdditionalTextEdits |->
            IF overlapLen > 0
            THEN <<[Start |-> position,
                    End |-> [Line |-> position.Line,
                             Character |-> position.Character + overlapLen],
                    NewText |-> <<>>]>>
            ELSE <<>>]

\* buildCompletionItem counting the end column from the start of the cursor
\* line's text also on a single line
buildCompletionItem_ColumnNever(hint, content, position, index) ==
    LET h == ItemText(hint, content)
        lines == SplitLines(h)
        endLine == position.Line + Len(lines) - 1
        endChar == Len(lines[Len(lines)])
        label0 == <<"A", "I", ":", " ">> \o lines[1]
        label == IF Len(label0) > LabelWidth
                 THEN Slice(label0, 0, LabelWidth) \o <<".", ".", ".">>
                 ELSE label0
        overlapLen == findOverlapSuffix(h, content.ContentImmediatelyAfter)
    IN  [Label |-> label,
         Detail |-> h,
         TextEdit |-> [Start |-> position, End |-> position, NewText |-> h],
         SortText |-> <<>>,
         Preselect |-> TRUE,
         AdditionalTextEdits |->
            IF overlapLen > 0
            THEN <<[Start |-> [Line |-> endLine, Character |-> endChar],
                    End |-> [Line |-> endLine, Character |-> endChar + overlapLen],
                    NewText |-> <<>>]>>
            ELSE <<>>]

buildCompletionItem(hint, content, position, index) ==
    LET h == ItemText(hint, content)
        lines == SplitLines(h)
        endLine == position.Line + Len(lines) - 1
        endChar == Len(lines[Len(lines)])
                   + (IF endLine = position.Line THEN position.Character ELSE 0)
        label0 == <<"A", "I", ":", " ">> \o lines[1]
        label == IF Len(label0) > LabelWidth
                 THEN Slice(label0, 0, LabelWidth) \o <<".", ".", ".">>
                 ELSE label0
        overlapLen == findOverlapSuffix(h, content.ContentImmediatelyAfter)
    IN  [Label |-> label,
         Detail |-> h,
         TextEdit |-> [Start |-> position, End |-> position, NewText |-> h],
         SortText |-> <<>>,
         Preselect |-> TRUE,
         AdditionalTextEdits |->
            IF overlapLen > 0
            THEN <<[Start |-> [Line |-> endLine, Character |-> endChar],
                    End |-> [Line |-> endLine, Character |-> endChar + overlapLen],
                    NewText |-> <<>>]>>
            ELSE <<>>]


(***************************************************************************)
(* Candidate Cleaner: OllamaProvider.cleanCompletion and its helpers.      *)
(***************************************************************************)
LowerLetters == {"a", "b", "c", "d", "e", "f", "g", "h", "i", "j", "k", "l", "m",
                 "n", "o", "p", "q", "r", "s", "t", "u", "v", "w", "x", "y", "z"}

\* the backquote character: a string literal cannot hold it alone
Backtick == SubSeq("`'", 1, 1)

Fence == <<Backtick, Backtick, Backtick>>

\* strings.Index(s[from:], substr) + from, or -1
IndexFrom(s, substr, from) ==
    LET i == Index(Slice(s, from, Len(s)), substr)
    IN  IF i = -1 THEN -1 ELSE i + from

\* the first submatch of the code block expression in s (a fence, lower-case
\* letters, an optional newline, the shortest text, a fence), as <<TRUE, text>>, or
\* <<FALSE, s>> when the expression does not match: the match starts at the
\* first fence, takes the letters and the newline behind it, and ends at the
\* next fence
CodeBlockMatch(s) ==
    LET open == Index(s, Fence)
        letters == {i \in (open + 3)..Len(s) :
                      \A j \in (open + 3)..(i - 1) : s[j + 1] \in LowerLetters}
        afterLetters == MaxOf(letters)
        body == IF afterLetters < Len(s) /\ s[afterLetters + 1] = "\n"
                THEN afterLetters + 1 ELSE afterLetters
        close == IndexFrom(s, Fence, body)
    IN  IF open = -1 THEN <<FALSE, s>>
        ELSE IF close = -1 THEN <<FALSE, s>>
        ELSE <<TRUE, Slice(s, body, close)>>

ModelTokens == << <<"<", "|">>,
               <<"<", "F", "I", "L", "L", ">">>,
               <<"<", "C", "U", "R", "S", "O", "R", ">">>,
               <<"<", "/", "s", ">">>,
               <<"<", "s", ">">> >>

\* the loop over the model-specific tokens: cut at each token found, in order
RECURSIVE StripTokens(_, _)
StripTokens(response, tokens) ==
    IF tokens = <<>> THEN response
    ELSE IF Index(response, Head(tokens)) # -1
         THEN StripTokens(Slice(response, 0, Index(response, Head(tokens))), Tail(tokens))
         ELSE StripTokens(response, Tail(tokens))

ChatPrefixes == << <<"h", "e", "r", "e", "'", "s", " ", "t", "h", "e", " ", "c", "o", "m", "p", "l", "e", "t", "i", "o", "n", ":">>,
                <<"h", "e", "r", "e", " ", "i", "s", " ", "t", "h", "e", " ", "c", "o", "m", "p", "l", "e", "t", "i", "o", "n", ":">>,
                <<"h", "e", "r", "e", " ", "i", "s", " ", "t", "h", "e", " ", "c", "o", "m", "p", "l", "e", "t", "e", "d", " ", "c", "o", "d", "e", ":">>,
                <<"c", "o", "m", "p", "l", "e", "t", "i", "o", "n", ":">>,
                <<"t", "h", "e", " ", "c", "o", "m", "p", "l", "e", "t", "i", "o", "n", " ", "i", "s", ":">>,
                <<"o", "u", "t", "p", "u", "t", ":">>,
                <<"a", "n", "s", "w", "e", "r", ":">>,
                <<"c", "o", "d", "e", ":">> >>

\* the loop over the chat prefixes: the prefix is tested on the trimmed,
\* lower-cased response and cut from the response as it is
RECURSIVE StripPrefixes(_, _)
StripPrefixes(response, prefixes) ==
    IF prefixes = <<>> THEN response
    ELSE IF HasPrefix(ToLower(TrimSpace(response)), Head(prefixes))
         THEN StripPrefixes(TrimSpace(Slice(response, Len(Head(prefixes)), Len(response))),
                            Tail(prefixes))
         ELSE StripPrefixes(response, Tail(prefixes))

LastLineOf(text) == LET lines == SplitLines(text) IN lines[Len(lines)]

\* the echoed current-line prefix is removed from the response
StripLinePrefix(response, before) ==
    LET currentLinePrefix == TrimSpace(LastLineOf(before))
        respTrimmed == TrimSpace(response)
    IN  IF currentLinePrefix # <<>> /\ HasPrefix(respTrimmed, currentLinePrefix)
        THEN TrimLeft(TrimPrefix(respTrimmed, currentLinePrefix), {" "})
        ELSE response

BlockStarters == << <<"f", "o", "r", " ">>,
                 <<"f", "o", "r", "{">>,
                 <<"i", "f", " ">>,
                 <<"i", "f", "(">>,
                 <<"e", "l", "s", "e", " ">>,
                 <<"e", "l", "s", "e", "{">>,
                 <<"s", "w", "i", "t", "c", "h", " ">>,
                 <<"s", "e", "l", "e", "c", "t", " ">>,
                 <<"f", "u", "n", "c", " ">>,
                 <<"f", "u", "n", "c", "(">> >>

isBlockContext(before) ==
    LET lastLine == TrimSpace(LastLineOf(before))
    IN  \/ \E k \in 1..Len(BlockStarters) :
              HasPrefix(lastLine, BlockStarters[k]) \/ Contains(lastLine, BlockStarters[k])
        \/ HasSuffix(lastLine, <<"{">>)

SkipTokens == {<<"{">>, <<"}">>, <<"(">>, <<")">>, <<"[">>, <<"]">>,
               <<"/", "/">>, <<"/", "*">>}

BoundaryChars == {" ", "\t", "\n", "[", "(", "{", "=", ":"}

truncateAtAfterOverlap(response, after) ==
    LET afterTrimmed == TrimSpace(after)
        firstAfterToken == TrimSpace(SplitLines(afterTrimmed)[1])
        words == Fields(firstAfterToken)
        skipFirst == words[1] \in SkipTokens
        firstWord == IF skipFirst THEN words[2] ELSE words[1]
        idx == Index(response, firstWord)
    IN  IF after = <<>> \/ afterTrimmed = <<>> THEN response
        ELSE IF Len(firstAfterToken) <= 1 THEN response
        ELSE IF Len(words) = 0 THEN response
        ELSE IF skipFirst /\ Len(words) <= 1 THEN response
        ELSE IF Len(firstWord) >= 2 /\ idx > 0 /\ response[idx] \in BoundaryChars
             THEN TrimRight(Slice(response, 0, idx), {" ", "\t"})
        ELSE response

removeAfterDuplicates(response, after) ==
    LET afterLines == SplitLines(after)
        respLines == SplitLines(response)
        n == Len(respLines)
        \* the last i lines of the response equal the first i lines of after
        Match(i) == \A j \in 1..i :
                       TrimSpace(respLines[n - i + j]) = TrimSpace(afterLines[j])
        Substantial(i) == \E j \in 1..i :
                             TrimSpace(respLines[n - i + j]) \notin {<<>>, <<"}">>, <<"{">>}
        drop == {i \in 1..minInt(3, n) :
                    /\ Len(afterLines) >= i
                    /\ Match(i) /\ Substantial(i)
                    /\ n - i >= 1}
    IN  IF drop = {} THEN response
        ELSE JoinLines(SubSeq(respLines, 1, n - MaxOf(drop)))

\* a response shorter than this many lines is left alone
FunctionDuplicateMinLines == 15

\* the lines of after that are searched for the function signature
FunctionDuplicateAfterLines == 10

removeAfterFunctionDuplicates(response, after) ==
    LET respLines == SplitLines(response)
        afterLines == SplitLines(after)
        n == Len(respLines)
        IsFunc(line) == HasPrefix(line, <<"f", "u", "n", "c", " ">>)
                        \/ HasPrefix(line, <<"f", "u", "n", "c", "(">>)
        Cut(i) == TrimRight(JoinLines(SubSeq(respLines, 1, i)), {" ", "\t", "\n"})
        \* i is Go's 0-based index of the line
        hits == {i \in (n \div 2)..(n - 1) :
                    /\ IsFunc(TrimSpace(respLines[i + 1]))
                    /\ \E j \in 1..minInt(FunctionDuplicateAfterLines, Len(afterLines)) :
                          TrimSpace(respLines[i + 1]) = TrimSpace(afterLines[j])
                    /\ Len(Cut(i)) > Len(response) \div 3}
    IN  IF response = <<>> \/ after = <<>> THEN response
        ELSE IF n < FunctionDuplicateMinLines THEN response
        ELSE IF hits = {} THEN response
        ELSE Cut(MinOf(hits))

\* more lines than this are cut to the first line outside a block context
LongCompletionLines == 10

\* outside a block context, a completion of several lines is cut to its
\* first line after a declaration or assignment, or when it is very long
TruncateStatement(response, before) ==
    LET lines == SplitLines(response)
        beforeTrimmed == TrimSpace(before)
        firstLine == TrimSpace(lines[1])
    IN  IF isBlockContext(before) \/ ~Contains(response, <<"\n">>) THEN response
        ELSE IF \/ HasSuffix(beforeTrimmed, <<"v", "a", "r">>)
                \/ Contains(beforeTrimmed, <<"v", "a", "r", " ">>)
                \/ Contains(beforeTrimmed, <<":", "=">>)
             THEN IF Len(firstLine) >= 2 THEN lines[1] ELSE response
        ELSE IF Len(lines) > LongCompletionLines
             THEN IF Len(firstLine) >= 2 /\ ~HasSuffix(firstLine, <<"{">>)
                  THEN lines[1] ELSE response
        ELSE response

\* the response with a markdown code block replaced by the block's text
StripCodeBlock(response) ==
    LET matches == CodeBlockMatch(response)
    IN  IF matches[1] THEN TrimSpace(matches[2]) ELSE response

\* the three trims at the end of cleanCompletion
TrimEnds(response) ==
    TrimLeft(TrimRight(TrimLeft(response, {"\n"}), {" ", "\t", "\n"}), {" ", "\t"})

\* The steps of cleanCompletion run one after another; each set below holds
\* the response as it is after one step.
cleanCompletion(response, before, after) ==
    LET unfenced == {StripCodeBlock(response)}
        unquoted == {Trim(r, {Backtick}) : r \in unfenced}
        untokened == {StripTokens(r, ModelTokens) : r \in unquoted}
        unprefixed == {StripPrefixes(r, ChatPrefixes) : r \in untokened}
        unechoed == {StripLinePrefix(r, before) : r \in unprefixed}
        cutAtAfter == {IF after # <<>> THEN truncateAtAfterOverlap(r, after) ELSE r :
                         r \in unechoed}
        noDuplicates == {IF after # <<>> THEN removeAfterDuplicates(r, after) ELSE r :
                           r \in cutAtAfter}
        noFunctions == {IF after # <<>> THEN removeAfterFunctionDuplicates(r, after) ELSE r :
                          r \in noDuplicates}
        statement == {TruncateStatement(r, before) : r \in noFunctions}
        trimmed == {TrimEnds(r) : r \in statement}
        result == CHOOSE r \in trimmed : TRUE
    IN  IF response = <<>> THEN <<>>
        ELSE IF Len(TrimSpace(result)) < 2 THEN <<>>
        ELSE result

(***************************************************************************)
(* Bounds of the lifecycle model, and the inputs it draws from.            *)
(***************************************************************************)
\* trigger messages received in one run
MaxMsgs == 3

\* the highest document version the store reaches
MaxVersion == 2

\* a trigger arrives TickMs milliseconds after the previous one: the second of
\* two falls inside the duplicate window of the first, the third at its end
TickMs == 250

Delays == {TickMs}

\* the duplicate-suppression window, in milliseconds
DupWindow == 500

TextMain == <<"f", "u", "n", "c", " ", "m", "a", "i", "n", "(", ")", " ", "{", "\n", " ", " ", "\n", "}">>

TextDot == <<"x", ".", "\n", "#", " ", "}">>

TextBrace == <<"/", "/", "\n", "a", "b", "}">>

\* the document texts the store can hold
Texts == {TextMain, TextDot, TextBrace}

\* the cursor positions a trigger can carry
Positions == {[Line |-> 0, Character |-> 1],
              [Line |-> 1, Character |-> 2],
              [Line |-> 0, Character |-> 13]}

HintHi == <<"f", "m", "t", ".", "P", "r", "i", "n", "t", "l", "n", "(", "\"", "h", "i", "\"", ")">>

HintFoo == <<"f", "o", "o", "(", "b", "a", "r", ")", "\n", "}">>

HintShort == <<"a">>

\* a candidate that repeats the cursor line "func main() {" before its own text
HintEcho == <<"f", "u", "n", "c", " ", "m", "a", "i", "n", "(", ")", " ", "{", "x">>

\* the candidate lists a backend call can return without error
HintLists == {<<>>, <<HintHi>>, <<HintFoo, HintShort, HintHi>>, <<HintEcho>>}

(***************************************************************************)
(* The lifecycle state.                                                    *)
(*   buf    the open-document store's entry for the document               *)
(*   msgs   one record per trigger message received, in order of receipt;  *)
(*          a message's id is its index                                    *)
(*   h      the CompletionHandler's fields; 0 stands for nil               *)
(*   now    the clock when the latest trigger arrived, in milliseconds     *)
(* The assembler and the cleaner are pure functions; asm and cln hold the  *)
(* input and the results of one application of each, in the specifications *)
(* that exercise them, and stay idle in the lifecycle.  Likewise gen holds  *)
(* one call of the generation backend (OllamaProvider.Completion) and prog *)
(* one ProgressIndicator.  proc tells whether the process is running.      *)
(* ext holds one call of util.GetContent.  hs holds two handlers that      *)
(* serve several documents, in the specification that exercises them.      *)
(***************************************************************************)
VARIABLES buf, msgs, h, now, asm, cln, gen, prog, proc, ext, hs

vars == <<buf, msgs, h, now, asm, cln, gen, prog, proc, ext, hs>>

\* the variables the lifecycle's actions leave alone
pure == <<asm, cln, gen, prog, proc, ext, hs>>

\* the variables of the lifecycle
lifecycle == <<buf, msgs, h, now>>

Idle == [pc |-> "idle"]

\* the ids of the messages received so far
Ids == 1..Len(msgs)

\* lastTrigger's zero value: long before any trigger
ZeroTime == 0 - DupWindow

EmptyList == <<>>

\* the handler as NewCompletionHandler returns it, and one open document
LifecycleInit ==
    /\ buf = [open |-> TRUE, text |-> TextMain, version |-> 1]
    /\ msgs = <<>>
    /\ h = [cancelCurrent |-> 0, timer |-> 0, requestID |-> 0,
            lastTrigger |-> ZeroTime, lastContent |-> <<>>, pendingMsgID |-> 0]
    /\ now = 0

Init ==
    /\ LifecycleInit
    /\ hs = Idle
    /\ asm = Idle
    /\ cln = Idle
    /\ gen = Idle
    /\ prog = Idle
    /\ proc = "running"
    /\ ext = Idle

\* svc.Send of a completion list for message id
Send(ms, id, items) ==
    [ms EXCEPT ![id].responses = Append(@, items), ![id].pc = "done"]

\* h.sendEmptyCompletion
sendEmptyCompletion(ms, id) == Send(ms, id, EmptyList)

\* a message as it is received, before the handler acts on it.  Besides the
\* request's own data (pos, text, version, reqID, the state of its timer and
\* of its context) the record keeps what happened to it: the path through
\* the handler, the time of arrival at scheduleCompletion (at), where
\* executeCompletion stood when a later trigger cancelled it (supersededIn),
\* whether the document was stale when the timer fired and when the
\* backend's result was sent, whether the backend was called and what it
\* returned, every response sent for it, and the request whose response was
\* still owed in the handler's pending slot when it arrived (overtook, 0 for
\* none).  defers tells which deferred call of executeCompletion runs next
\* once the function body has ended: "stop" for progress.Stop, "recover" for
\* the recover of a panic, "ran" when all have run.
NewMsg(parsed, pos) ==
    [parsed |-> parsed, pos |-> pos, text |-> <<>>, at |-> 0,
     path |-> "received", pc |-> "handler", timer |-> "none",
     version |-> 0, reqID |-> 0, cancelled |-> FALSE, timedOut |-> FALSE,
     supersededIn |-> "none", staleAtFire |-> FALSE, staleAtSend |-> FALSE,
     called |-> FALSE, outcome |-> "none", hints |-> <<>>, responses |-> <<>>,
     notCurrent |-> FALSE, progress |-> [starts |-> 0, finals |-> 0],
     fault |-> "none", overtook |-> 0, defers |-> "none"]

\* cfg.EnableProgressSpinner
EnableProgressSpinner == TRUE

\* progress.Start() of the request's indicator
StartProgress(ms, id) ==
    IF EnableProgressSpinner THEN [ms EXCEPT ![id].progress.starts = @ + 1] ELSE ms

\* the deferred progress.Stop(), which sends the final notification
StopProgress(ms, id) ==
    IF EnableProgressSpinner /\ ms[id].progress.starts > 0
    THEN [ms EXCEPT ![id].progress.finals = @ + 1]
    ELSE ms

\* scheduleCompletion stopping the previous timer without answering the
\* message that waited on it
CancelPrevious_NoAnswer(ms) ==
    LET c == h.cancelCurrent
        t == h.timer
        ms1 == IF c # 0
               THEN [ms EXCEPT ![c].cancelled = TRUE, ![c].supersededIn = ms[c].pc]
               ELSE ms
        stopped == t # 0 /\ ms1[t].timer = "armed"
    IN  IF stopped THEN [ms1 EXCEPT ![t].timer = "stopped"] ELSE ms1

\* scheduleCompletion cancelling the previous context and leaving the
\* previous timer to fire
CancelPrevious_KeepsTimer(ms) ==
    LET c == h.cancelCurrent
    IN  IF c # 0
        THEN [ms EXCEPT ![c].cancelled = TRUE, ![c].supersededIn = ms[c].pc]
        ELSE ms

\* the first half of scheduleCompletion: cancel and answer the previous request
CancelPrevious(ms) ==
    LET c == h.cancelCurrent
        t == h.timer
        ms1 == IF c # 0
               THEN [ms EXCEPT ![c].cancelled = TRUE, ![c].supersededIn = ms[c].pc]
               ELSE ms
        stopped == t # 0 /\ ms1[t].timer = "armed"
        ms2 == IF stopped THEN [ms1 EXCEPT ![t].timer = "stopped"] ELSE ms1
    IN  IF stopped /\ h.pendingMsgID # 0
        THEN sendEmptyCompletion(ms2, h.pendingMsgID)
        ELSE ms2

\* the duplicate test of scheduleCompletion, at time t
IsDuplicate(contentKey, t) ==
    h.lastContent = contentKey /\ t - h.lastTrigger < DupWindow

\* scheduleCompletion giving the new request the counter's value without
\* incrementing it
scheduleCompletion_SameID(ms, id, content, t) ==
    LET ms1 == CancelPrevious(ms)
        contentKey == content.ContentBefore
    IN  IF IsDuplicate(contentKey, t)
        THEN /\ msgs' = sendEmptyCompletion(
                           [ms1 EXCEPT ![id].path = "duplicate", ![id].at = t], id)
             /\ h' = [h EXCEPT !.cancelCurrent = 0, !.timer = 0, !.pendingMsgID = 0]
        ELSE /\ msgs' = [ms1 EXCEPT ![id].path = "scheduled",
                                    ![id].at = t,
                                    ![id].pc = "debounce",
                                    ![id].timer = "armed",
                                    ![id].reqID = h.requestID,
                                    ![id].version = buf.version]
             /\ h' = [cancelCurrent |-> id, timer |-> id,
                      requestID |-> h.requestID,
                      lastTrigger |-> t, lastContent |-> contentKey,
                      pendingMsgID |-> id]

\* scheduleCompletion making the duplicate test before it touches the
\* previous request
scheduleCompletion_DuplicateFirst(ms, id, content, t) ==
    LET ms1 == CancelPrevious(ms)
        contentKey == content.ContentBefore
    IN  IF IsDuplicate(contentKey, t)
        THEN /\ msgs' = sendEmptyCompletion(
                           [ms EXCEPT ![id].path = "duplicate", ![id].at = t], id)
             /\ h' = h
        ELSE /\ msgs' = [ms1 EXCEPT ![id].path = "scheduled",
                                    ![id].at = t,
                                    ![id].pc = "debounce",
                                    ![id].timer = "armed",
                                    ![id].reqID = h.requestID + 1,
                                    ![id].version = buf.version]
             /\ h' = [cancelCurrent |-> id, timer |-> id,
                      requestID |-> h.requestID + 1,
                      lastTrigger |-> t, lastContent |-> contentKey,
                      pendingMsgID |-> id]

\* scheduleCompletion, called at time t
scheduleCompletion(ms, id, content, t) ==
    LET ms1 == CancelPrevious(ms)
        contentKey == content.ContentBefore
    IN  IF IsDuplicate(contentKey, t)
        THEN /\ msgs' = sendEmptyCompletion(
                           [ms1 EXCEPT ![id].path = "duplicate", ![id].at = t], id)
             /\ h' = [h EXCEPT !.cancelCurrent = 0, !.timer = 0, !.pendingMsgID = 0]
        ELSE /\ msgs' = [ms1 EXCEPT ![id].path = "scheduled",
                                    ![id].at = t,
                                    ![id].pc = "debounce",
                                    ![id].timer = "armed",
                                    ![id].reqID = h.requestID + 1,
                                    ![id].version = buf.version]
             /\ h' = [cancelCurrent |-> id, timer |-> id,
                      requestID |-> h.requestID + 1,
                      lastTrigger |-> t, lastContent |-> contentKey,
                      pendingMsgID |-> id]

\* a request whose response is still owed
Pending(id) == msgs[id].pc # "done"

\* the document matters only while a trigger can still arrive or a request
\* is still pending
Live == Len(msgs) < MaxMsgs \/ \E id \in 1..Len(msgs) : Pending(id)

\* the position a message that does not parse is recorded with
NoPosition == [Line |-> 0, Character |-> 0]

\* the request in the handler's pending slot, if its response is still owed
Overtaken ==
    IF h.pendingMsgID # 0 /\ Pending(h.pendingMsgID) THEN h.pendingMsgID ELSE 0

\* the event handler running the first half of scheduleCompletion before it
\* answers a message the skip filter rejects
Trigger_SkipSupersedes(parsed, pos, delay) ==
    /\ Len(msgs) < MaxMsgs
    /\ now' = now + delay
    /\ parsed <=> pos \in Positions
    /\ LET id == Len(msgs) + 1
           ms == Append(msgs, [NewMsg(parsed, pos) EXCEPT !.overtook = Overtaken])
           content == GetContent(buf.text, pos.Line, pos.Character)
       IN  IF ~parsed
           THEN /\ msgs' = sendEmptyCompletion([ms EXCEPT ![id].path = "parseError"], id)
                /\ h' = h
           ELSE IF ~buf.open
           THEN /\ msgs' = sendEmptyCompletion([ms EXCEPT ![id].path = "noDocument"], id)
                /\ h' = h
           ELSE IF shouldSkip(content)
           THEN /\ msgs' = sendEmptyCompletion(
                              [CancelPrevious(ms)
                                  EXCEPT ![id].path = "skipped", ![id].text = buf.text], id)
                /\ h' = [h EXCEPT !.cancelCurrent = 0, !.timer = 0, !.pendingMsgID = 0]
           ELSE scheduleCompletion([ms EXCEPT ![id].text = buf.text], id, content, now')
    /\ UNCHANGED <<buf, pure>>

\* the completion event handler installed by Register, for a message that
\* arrives delay milliseconds after the previous one; a message whose
\* parameters do not parse carries no position
Trigger(parsed, pos, delay) ==
    /\ Len(msgs) < MaxMsgs
    /\ now' = now + delay
    /\ parsed <=> pos \in Positions
    /\ LET id == Len(msgs) + 1
           ms == Append(msgs, [NewMsg(parsed, pos) EXCEPT !.overtook = Overtaken])
           content == GetContent(buf.text, pos.Line, pos.Character)
       IN  IF ~parsed
           THEN /\ msgs' = sendEmptyCompletion([ms EXCEPT ![id].path = "parseError"], id)
                /\ h' = h
           ELSE IF ~buf.open
           THEN /\ msgs' = sendEmptyCompletion([ms EXCEPT ![id].path = "noDocument"], id)
                /\ h' = h
           ELSE IF shouldSkip(content)
           THEN /\ msgs' = sendEmptyCompletion(
                              [ms EXCEPT ![id].path = "skipped", ![id].text = buf.text], id)
                /\ h' = h
           ELSE scheduleCompletion([ms EXCEPT ![id].text = buf.text], id, content, now')
    /\ UNCHANGED <<buf, pure>>

\* the debounce timer of message id fires: executeCompletion starts
TimerFire(id) ==
    /\ id \in 1..Len(msgs)
    /\ msgs[id].timer = "armed"
    /\ msgs' = [msgs EXCEPT ![id].timer = "fired", ![id].pc = "checkID",
                            ![id].staleAtFire = ~buf.open \/ buf.version > msgs[id].version]
    /\ UNCHANGED <<buf, h, now, pure>>

\* executeCompletion returning without a response when the request is no
\* longer current
ExecCheckID_SilentDrop(id) ==
    /\ id \in 1..Len(msgs)
    /\ msgs[id].pc = "checkID"
    /\ msgs' = IF h.requestID # msgs[id].reqID
               THEN [msgs EXCEPT ![id].pc = "done"]
               ELSE [msgs EXCEPT ![id].pc = "checkBuffer"]
    /\ UNCHANGED <<buf, h, now, pure>>

\* executeCompletion: is this request still current?
ExecCheckID(id) ==
    /\ id \in 1..Len(msgs)
    /\ msgs[id].pc = "checkID"
    /\ msgs' = IF h.requestID # msgs[id].reqID
               THEN sendEmptyCompletion([msgs EXCEPT ![id].notCurrent = TRUE], id)
               ELSE [msgs EXCEPT ![id].pc = "checkBuffer"]
    /\ UNCHANGED <<buf, h, now, pure>>

\* executeCompletion testing only that the document is still in the store
ExecCheckBuffer_NoVersion(id) ==
    /\ id \in 1..Len(msgs)
    /\ msgs[id].pc = "checkBuffer"
    /\ msgs' = IF ~buf.open
               THEN sendEmptyCompletion(msgs, id)
               ELSE [msgs EXCEPT ![id].pc = "checkCtx"]
    /\ UNCHANGED <<buf, h, now, pure>>

\* executeCompletion: has the buffer changed?
ExecCheckBuffer(id) ==
    /\ id \in 1..Len(msgs)
    /\ msgs[id].pc = "checkBuffer"
    /\ msgs' = IF ~buf.open \/ buf.version > msgs[id].version
               THEN sendEmptyCompletion(msgs, id)
               ELSE [msgs EXCEPT ![id].pc = "checkCtx"]
    /\ UNCHANGED <<buf, h, now, pure>>

\* executeCompletion calling the backend without looking at the context
ExecCheckCtx_NoCheck(id) ==
    /\ id \in 1..Len(msgs)
    /\ msgs[id].pc = "checkCtx"
    /\ msgs' = [StartProgress(msgs, id)
                    EXCEPT ![id].pc = "generating", ![id].called = TRUE]
    /\ UNCHANGED <<buf, h, now, pure>>

\* executeCompletion starting the progress indicator before it looks at the
\* context
ExecCheckCtx_ProgressFirst(id) ==
    /\ id \in 1..Len(msgs)
    /\ msgs[id].pc = "checkCtx"
    /\ msgs' = IF msgs[id].cancelled
               THEN StopProgress(sendEmptyCompletion(StartProgress(msgs, id), id), id)
               ELSE [StartProgress(msgs, id)
                        EXCEPT ![id].pc = "generating", ![id].called = TRUE]
    /\ UNCHANGED <<buf, h, now, pure>>

\* executeCompletion: was the context cancelled?  If not, the progress
\* indicator is started and the backend is called
ExecCheckCtx(id) ==
    /\ id \in 1..Len(msgs)
    /\ msgs[id].pc = "checkCtx"
    /\ msgs' = IF msgs[id].cancelled
               THEN sendEmptyCompletion(msgs, id)
               ELSE [StartProgress(msgs, id)
                        EXCEPT ![id].pc = "generating", ![id].called = TRUE]
    /\ UNCHANGED <<buf, h, now, pure>>

\* the generation timeout of message id expires during the backend call
GenTimeout(id) ==
    /\ id \in 1..Len(msgs)
    /\ msgs[id].pc = "generating"
    /\ ~msgs[id].timedOut
    /\ msgs' = [msgs EXCEPT ![id].timedOut = TRUE]
    /\ UNCHANGED <<buf, h, now, pure>>

\* the hints executeCompletion keeps
ValidHints(hints) == SelectSeq(hints, LAMBDA x : Len(TrimSpace(x)) >= 2)

\* the items built from the last kept hint to the first
BuildItems_Reversed(hints, content, position) ==
    LET valid == ValidHints(hints)
        n == Len(valid)
    IN  [i \in 1..n |-> buildCompletionItem(valid[n + 1 - i], content, position, i - 1)]

\* the items executeCompletion builds from the hints it keeps
BuildItems(hints, content, position) ==
    LET valid == ValidHints(hints)
    IN  [i \in 1..Len(valid) |-> buildCompletionItem(valid[i], content, position, i - 1)]

\* executeCompletion clearing the handler's pending state once it has
\* answered
BackendReturn_ClearsPending(id, hints) ==
    /\ id \in 1..Len(msgs)
    /\ msgs[id].pc = "generating"
    /\ LET pos == msgs[id].pos
           content == GetContent(msgs[id].text, pos.Line, pos.Character)
       IN  msgs' = [Send(msgs, id, BuildItems(hints, content, pos))
                       EXCEPT ![id].outcome = "hints", ![id].hints = hints,
                              ![id].staleAtSend = ~buf.open \/ buf.version > msgs[id].version,
                              ![id].defers = "stop"]
    /\ h' = [h EXCEPT !.cancelCurrent = 0, !.pendingMsgID = 0]
    /\ UNCHANGED <<buf, now, pure>>

\* the backend call returns hints without error and executeCompletion
\* answers; its deferred calls are still to run
BackendReturn(id, hints) ==
    /\ id \in 1..Len(msgs)
    /\ msgs[id].pc = "generating"
    /\ LET pos == msgs[id].pos
           content == GetContent(msgs[id].text, pos.Line, pos.Character)
       IN  msgs' = [Send(msgs, id, BuildItems(hints, content, pos))
                       EXCEPT ![id].outcome = "hints", ![id].hints = hints,
                              ![id].staleAtSend = ~buf.open \/ buf.version > msgs[id].version,
                              ![id].defers = "stop"]
    /\ UNCHANGED <<buf, h, now, pure>>

\* the backend call returns an error and executeCompletion answers empty;
\* its deferred calls are still to run
BackendFail(id) ==
    /\ id \in 1..Len(msgs)
    /\ msgs[id].pc = "generating"
    /\ msgs' = [sendEmptyCompletion(msgs, id)
                    EXCEPT ![id].outcome = "error", ![id].defers = "stop"]
    /\ UNCHANGED <<buf, h, now, pure>>

\* the deferred cancel and the deferred progress.Stop of executeCompletion:
\* Stop writes the final notification; in a panic the recover is next
DeferredStop(id) ==
    /\ id \in 1..Len(msgs)
    /\ msgs[id].defers = "stop"
    /\ msgs' = [StopProgress(msgs, id)
                    EXCEPT ![id].defers = IF msgs[id].fault = "execute"
                                          THEN "recover" ELSE "ran"]
    /\ UNCHANGED <<buf, h, now, pure>>

\* the document-sync collaborator replaces the document's text
DocChange(t) ==
    /\ Live
    /\ buf.open
    /\ buf.version < MaxVersion
    /\ t # buf.text
    /\ buf' = [buf EXCEPT !.text = t, !.version = @ + 1]
    /\ UNCHANGED <<msgs, h, now, pure>>

\* the document-sync collaborator drops the document
DocClose ==
    /\ Live
    /\ buf.open
    /\ buf' = [buf EXCEPT !.open = FALSE]
    /\ UNCHANGED <<msgs, h, now, pure>>

Next ==
    \/ \E parsed \in BOOLEAN, pos \in Positions \cup {NoPosition}, delay \in Delays :
          Trigger(parsed, pos, delay)
    \/ \E id \in 1..MaxMsgs : TimerFire(id)
    \/ \E id \in 1..MaxMsgs : ExecCheckID(id)
    \/ \E id \in 1..MaxMsgs : ExecCheckBuffer(id)
    \/ \E id \in 1..MaxMsgs : ExecCheckCtx(id)
    \/ \E id \in 1..MaxMsgs : GenTimeout(id)
    \/ \E id \in 1..MaxMsgs, hints \in HintLists : BackendReturn(id, hints)
    \/ \E id \in 1..MaxMsgs : BackendFail(id)
    \/ \E id \in 1..MaxMsgs : DeferredStop(id)
    \/ \E t \in Texts : DocChange(t)
    \/ DocClose

Spec == Init /\ [][Next]_vars


\* the backend call of message id ends, with a result or with an error
BackendDone(id) ==
    BackendFail(id) \/ \E hints \in HintLists : BackendReturn(id, hints)

\* the runtime fires an expired timer, schedules the goroutine that runs
\* executeCompletion, and the backend call ends (it returns, or the cancel
\* signal or the generation timeout aborts it)
Fairness ==
    \A id \in 1..MaxMsgs :
        /\ WF_vars(TimerFire(id))
        /\ WF_vars(ExecCheckID(id))
        /\ WF_vars(ExecCheckBuffer(id))
        /\ WF_vars(ExecCheckCtx(id))
        /\ WF_vars(BackendDone(id))

LiveSpec == Init /\ [][Next]_vars /\ Fairness

Received(id) == id <= Len(msgs)

Answered(id) == Received(id) /\ Len(msgs[id].responses) >= 1

\* C2: every trigger message received is eventually answered, under fair
\* scheduling of the timer callback and a backend call that ends
C2_EveryMessageAnswered ==
    \A id \in 1..MaxMsgs : Received(id) ~> Answered(id)

\* a request cancelled during its backend call, one stopped in debounce and
\* one whose generation timed out, all answered
C2_Witness ==
    /\ \E id \in Ids : msgs[id].supersededIn = "generating" /\ Answered(id)
    /\ \E id \in Ids : msgs[id].timer = "stopped" /\ Answered(id)
    /\ \E id \in Ids : msgs[id].timedOut /\ Answered(id)


(***************************************************************************)
(* Properties of the lifecycle.                                            *)
(***************************************************************************)
Executing(id) == msgs[id].pc \in {"checkID", "checkBuffer", "checkCtx", "generating"}

\* executeCompletion has answered or panicked and its deferred calls run
Unwinding(id) == msgs[id].defers \in {"stop", "recover"}

\* no timer is waiting to fire and no executeCompletion is running
Quiescent ==
    \A id \in Ids : msgs[id].timer # "armed" /\ ~Executing(id) /\ ~Unwinding(id)

AllEmpty(id) == \A k \in 1..Len(msgs[id].responses) : msgs[id].responses[k] = EmptyList

\* the message reached scheduleCompletion
ReachedManager(id) == msgs[id].path \in {"duplicate", "scheduled"}

\* the text-before-cursor key of a message that found its document
KeyOf(id) ==
    GetContent(msgs[id].text, msgs[id].pos.Line, msgs[id].pos.Character).ContentBefore

\* C1: no trigger message ever receives more than one response, and once all
\* timers and executions have finished every message received has exactly one
C1_ExactlyOneResponse ==
    \A id \in Ids :
        /\ Len(msgs[id].responses) <= 1
        /\ Quiescent => Len(msgs[id].responses) = 1

\* three messages, all answered once: one stopped during debounce, one
\* answered with items
C1_Witness ==
    /\ Len(msgs) = MaxMsgs
    /\ Quiescent
    /\ \A id \in Ids : Len(msgs[id].responses) = 1
    /\ \E id \in Ids : msgs[id].timer = "stopped"
    /\ \E id \in Ids : ~AllEmpty(id)

\* C3: a request that a later trigger superseded while it was
\* pending (in debounce or in execution, the backend call included) is
\* answered empty
C3_SupersededResolvesEmpty ==
    \A id \in Ids :
        msgs[id].supersededIn \in {"debounce", "checkID", "checkBuffer",
                                   "checkCtx", "generating"}
            => AllEmpty(id)

\* the previous message that reached scheduleCompletion, or 0
PrevAtManager(id) ==
    LET before == {p \in 1..(id - 1) : ReachedManager(p)}
    IN  IF before = {} THEN 0 ELSE MaxOf(before)

\* suppressed: answered empty at once, no timer, no backend call
Suppressed(id) ==
    /\ msgs[id].path = "duplicate"
    /\ msgs[id].responses = <<EmptyList>>
    /\ msgs[id].timer = "none"
    /\ ~msgs[id].called

\* C4: of two consecutive triggers at the lifecycle manager with
\* the same key and less than 500 ms apart, the second is suppressed
C4_ConsecutivePairSuppressed ==
    \A id \in Ids :
        LET p == PrevAtManager(id)
        IN  (/\ ReachedManager(id)
             /\ p # 0
             /\ KeyOf(p) = KeyOf(id)
             /\ msgs[id].at - msgs[p].at < DupWindow)
                => Suppressed(id)

\* C5: a request whose document is stale (a greater version, or gone) when
\* its timer fires is answered empty and makes no backend call
C5_StaleAtFireNoBackend ==
    \A id \in Ids :
        msgs[id].staleAtFire =>
            /\ ~msgs[id].called
            /\ AllEmpty(id)
            /\ (~Executing(id) => msgs[id].responses = <<EmptyList>>)

\* a current, uncancelled request answered empty because the store reports a
\* greater version
C5_Witness ==
    \E id \in Ids :
        /\ msgs[id].staleAtFire
        /\ buf.open /\ buf.version > msgs[id].version
        /\ msgs[id].reqID = h.requestID
        /\ msgs[id].supersededIn = "none"
        /\ msgs[id].responses = <<EmptyList>>

\* C6: a request whose document is stale when its response is sent
\* is answered empty
C6_StaleResolvesEmpty ==
    \A id \in Ids : msgs[id].staleAtSend => AllEmpty(id)

\* the cursor line of a message, and the part of it before the cursor
CursorLine(id) ==
    LET lines == SplitLines(msgs[id].text)
        l == msgs[id].pos.Line
    IN  lines[IF l + 1 > Len(lines) THEN Len(lines) ELSE l + 1]

BeforeCursor(id) ==
    SubSeq(CursorLine(id), 1, minInt(msgs[id].pos.Character, Len(CursorLine(id))))

IsComment(line) == HasPrefix(line, <<"/", "/">>) \/ HasPrefix(line, <<"#">>)

\* the skip conditions, on the cursor line as a whole or on its part before
\* the cursor
SkipContext(id) ==
    \/ BeforeCursor(id) # <<>> /\ BeforeCursor(id)[Len(BeforeCursor(id))] = "."
    \/ IsComment(TrimSpace(CursorLine(id))) \/ IsComment(TrimSpace(BeforeCursor(id)))
    \/ Len(TrimSpace(CursorLine(id))) < 2 \/ Len(TrimSpace(BeforeCursor(id))) < 2

\* C7: a trigger in a skip context is answered empty at once; no timer is
\* scheduled and no backend call is made for it
C7_SkipFilter ==
    \A id \in Ids :
        (msgs[id].path \notin {"parseError", "noDocument"} /\ SkipContext(id))
            => /\ msgs[id].path = "skipped"
               /\ msgs[id].responses = <<EmptyList>>
               /\ msgs[id].timer = "none"
               /\ msgs[id].reqID = 0
               /\ ~msgs[id].called

\* the line "x." with the cursor behind the dot
C7_Witness ==
    \E id \in Ids :
        /\ msgs[id].path = "skipped"
        /\ CursorLine(id) = <<"x", ".">>
        /\ BeforeCursor(id) = <<"x", ".">>

BlankLineCursor == [Line |-> 1, Character |-> 2]

FirstLineEnd == [Line |-> 0, Character |-> 13]

\* the response is the one item that inserts text at pos and deletes nothing
OneItemInserting(id, text, pos) ==
    /\ Len(msgs[id].responses) = 1
    /\ Len(msgs[id].responses[1]) = 1
    /\ msgs[id].responses[1][1].TextEdit = [Start |-> pos, End |-> pos, NewText |-> text]
    /\ msgs[id].responses[1][1].AdditionalTextEdits = <<>>

\* C8 as claimed: the trigger on the blank second line of the document is
\* scheduled, and answered with the backend's candidate as one item
C8_BlankLineEndToEnd ==
    \A id \in Ids :
        (msgs[id].text = TextMain /\ msgs[id].pos = BlankLineCursor)
            => /\ msgs[id].path = "scheduled"
               /\ msgs[id].hints = <<HintHi>> => OneItemInserting(id, HintHi, BlankLineCursor)

\* C8 amended: the trigger on the blank second line is skipped; the trigger at
\* the end of the first line is scheduled and a backend result of the one
\* candidate is answered with exactly that item
C8_EndToEnd ==
    \A id \in Ids :
        /\ (msgs[id].text = TextMain /\ msgs[id].pos = BlankLineCursor)
            => /\ msgs[id].path = "skipped"
               /\ msgs[id].responses = <<EmptyList>>
               /\ msgs[id].timer = "none"
               /\ ~msgs[id].called
        /\ (msgs[id].text = TextMain /\ msgs[id].pos = FirstLineEnd)
            => /\ msgs[id].path \in {"duplicate", "scheduled"}
               /\ msgs[id].hints = <<HintHi>> =>
                    /\ msgs[id].path = "scheduled" /\ msgs[id].timer = "fired"
                    /\ msgs[id].called
                    /\ OneItemInserting(id, HintHi, FirstLineEnd)

\* one trigger at the end of the first line, answered with the item, and one
\* on the blank line, skipped
C8_Witness ==
    /\ \E id \in Ids :
        /\ msgs[id].text = TextMain /\ msgs[id].pos = FirstLineEnd
        /\ msgs[id].hints = <<HintHi>>
        /\ OneItemInserting(id, HintHi, FirstLineEnd)
    /\ \E id \in Ids :
        /\ msgs[id].text = TextMain /\ msgs[id].pos = BlankLineCursor
        /\ msgs[id].path = "skipped"

\* C13: with progress notification enabled, a request that begins
\* generation starts the notification loop exactly once and emits exactly
\* one final notification when generation ends, however it ends: none
\* before the response is sent, and one once the deferred Stop has run; a
\* request resolved before generation starts emits neither
C13_ProgressOncePerGeneration ==
    \A id \in Ids :
        /\ msgs[id].called =>
               /\ msgs[id].progress.starts = 1
               /\ msgs[id].progress.finals = IF msgs[id].defers = "ran" THEN 1 ELSE 0
               /\ msgs[id].pc = "done" <=> msgs[id].defers \in {"stop", "ran"}
               /\ (Quiescent /\ msgs[id].pc = "done") => msgs[id].progress.finals = 1
        /\ ~msgs[id].called =>
               /\ msgs[id].progress = [starts |-> 0, finals |-> 0]
               /\ msgs[id].defers = "none"

\* one request cancelled during generation, one that timed out and returned
\* nothing, and one resolved empty before generation
C13_Witness ==
    /\ \E id \in Ids :
           /\ msgs[id].pc = "done" /\ msgs[id].supersededIn = "generating"
           /\ msgs[id].progress = [starts |-> 1, finals |-> 1]
    /\ \E id \in Ids :
           /\ msgs[id].pc = "done" /\ msgs[id].timedOut
           /\ msgs[id].outcome = "hints" /\ msgs[id].hints = <<>>
           /\ msgs[id].progress = [starts |-> 1, finals |-> 1]
    /\ \E id \in Ids :
           /\ msgs[id].pc = "done" /\ ~msgs[id].called
           /\ msgs[id].path \in {"skipped", "duplicate"}

\* generation for the request was cancelled, timed out, or failed
GenerationAborted(id) ==
    /\ msgs[id].called
    /\ \/ msgs[id].supersededIn = "generating"
       \/ msgs[id].timedOut
       \/ msgs[id].outcome = "error"

\* C16: a request whose generation ends through cancellation, through the
\* generation timeout or through a failure of the backend gets exactly one
\* response, and that response has no items
C16_AbortedGenerationEmpty ==
    \A id \in Ids :
        (msgs[id].pc = "done" /\ GenerationAborted(id)) =>
            msgs[id].responses = <<EmptyList>>

\* the messages that were given a request identity
Scheduled == {id \in Ids : msgs[id].path = "scheduled"}

\* C18: identities come from one counter incremented by 1 for each scheduled
\* trigger: the k-th scheduled trigger has identity k and the counter holds
\* the latest, so exactly one request is current; a request that finds at
\* execution that it is not the current one makes no backend call and gets
\* one empty response
C18_IdentityCounter ==
    /\ h.requestID = Cardinality(Scheduled)
    /\ \A id \in Ids :
           /\ msgs[id].reqID =
                  IF id \in Scheduled
                  THEN Cardinality({p \in Scheduled : p <= id})
                  ELSE 0
           /\ msgs[id].notCurrent =>
                  /\ msgs[id].reqID < h.requestID
                  /\ ~msgs[id].called
                  /\ msgs[id].progress.starts = 0
                  /\ msgs[id].responses = <<EmptyList>>
    /\ Scheduled # {} =>
           Cardinality({id \in Scheduled : msgs[id].reqID = h.requestID}) = 1

\* two scheduled triggers with identities 1 and 2; the timer of the first
\* had fired before the second arrived, and the first found itself not
\* current
C18_Witness ==
    \E id, next \in Ids :
        /\ msgs[id].reqID = 1 /\ msgs[next].reqID = 2
        /\ h.requestID = 2
        /\ msgs[id].timer = "fired"
        /\ msgs[id].notCurrent

\* the requests inside the backend call
Generating == {id \in Ids : msgs[id].pc = "generating"}

\* C19: at most one request is inside its backend call at any instant
C19_OneGenerationAtATime ==
    Cardinality(Generating) <= 1

\* the fields of the handler that its mutex guards
Guarded(hh) ==
    <<hh.cancelCurrent, hh.timer, hh.pendingMsgID, hh.lastContent, hh.lastTrigger>>

\* what the backend call and the cleaning of a request have done so far
BackendState(ms) ==
    [id \in 1..Len(ms) |-> <<ms[id].called, ms[id].outcome, ms[id].hints>>]

\* the step is one run of scheduleCompletion, from Lock to the deferred
\* Unlock, for a message received in this step
InScheduleCompletion ==
    /\ Len(msgs') = Len(msgs) + 1
    /\ msgs'[Len(msgs')].path \in {"duplicate", "scheduled"}

\* C20: the pending timer, cancel function and message id and the duplicate
\* key and time are written only inside scheduleCompletion, which holds the
\* mutex from entry to return; no backend call or cleaning starts or ends
\* inside it, and the steps of executeCompletion (backend call, cleaning,
\* assembly) write none of the guarded fields
C20_GuardedWritesUnderLock ==
    [][ /\ Guarded(h') # Guarded(h) => InScheduleCompletion
        /\ InScheduleCompletion =>
               SubSeq(BackendState(msgs'), 1, Len(msgs)) = BackendState(msgs)
      ]_vars

\* a trigger went through scheduleCompletion while an earlier request was
\* inside its backend call
C20_Witness ==
    \E id \in Ids :
        /\ msgs[id].pc = "generating"
        /\ h.pendingMsgID > id
        /\ msgs[h.pendingMsgID].timer = "armed"

\* the candidates of a backend result that the post-processing keeps, in
\* the backend's order
Surviving(hints) == SelectSeq(hints, LAMBDA x : Len(TrimSpace(x)) >= 2)

\* the text-window of a message that found its document
ContentOf(id) == GetContent(msgs[id].text, msgs[id].pos.Line, msgs[id].pos.Character)

\* C22: a non-empty response has one item per surviving candidate, item i
\* built from the i-th surviving candidate in the backend's order, and
\* every item is preselected with an empty sort key
C22_ItemsInBackendOrder ==
    \A id \in Ids :
        \A k \in 1..Len(msgs[id].responses) :
            LET items == msgs[id].responses[k]
                kept == Surviving(msgs[id].hints)
            IN  items # EmptyList =>
                    /\ Len(items) = Len(kept)
                    /\ \A i \in 1..Len(items) :
                           /\ items[i].TextEdit.NewText = ItemText(kept[i], ContentOf(id))
                           /\ items[i].Detail = items[i].TextEdit.NewText
                           /\ items[i].Preselect
                           /\ items[i].SortText = <<>>

\* the backend returned three candidates, the second too short: the
\* response holds the first and the third, in that order
C22_Witness ==
    \E id \in Ids :
        /\ msgs[id].hints = <<HintFoo, HintShort, HintHi>>
        /\ Len(msgs[id].responses) = 1
        /\ Len(msgs[id].responses[1]) = 2
        /\ msgs[id].responses[1][1].TextEdit.NewText = HintFoo
        /\ msgs[id].responses[1][2].TextEdit.NewText = HintHi

\* C24: a candidate that is empty or shorter than 2 characters after
\* trimming never appears in a response; when no candidate survives the
\* response is empty; otherwise one non-empty response is sent, and every
\* item in it inserts text of at least 2 characters after trimming
C24_ShortCandidatesDropped ==
    \A id \in Ids :
        /\ msgs[id].outcome = "hints" =>
               /\ Len(msgs[id].responses) = 1
               /\ Len(msgs[id].responses[1]) = Len(Surviving(msgs[id].hints))
        /\ \A k \in 1..Len(msgs[id].responses) :
               \A i \in 1..Len(msgs[id].responses[k]) :
                   Len(TrimSpace(msgs[id].responses[k][i].TextEdit.NewText)) >= 2

\* C25: when a trigger reaches scheduleCompletion while the previous
\* request's timer has not fired, that step stops the timer and sends the
\* previous message its empty response; a request whose timer was stopped
\* is never executed and never calls the backend
C25_PendingTimerAnsweredAtOnce ==
    [][ /\ \A id \in Ids :
               (msgs[id].timer = "armed" /\ InScheduleCompletion) =>
                   /\ msgs'[id].timer = "stopped"
                   /\ msgs'[id].responses = <<EmptyList>>
        /\ \A id \in Ids :
               msgs[id].timer = "stopped" =>
                   /\ msgs'[id] = msgs[id]
                   /\ msgs[id].pc = "done"
                   /\ msgs[id].supersededIn = "debounce"
                   /\ ~msgs[id].called
                   /\ ~msgs[id].notCurrent
                   /\ msgs[id].progress.starts = 0
      ]_vars

\* one request stopped in debounce by a trigger that was scheduled, and one
\* by a trigger that was a duplicate
C25_Witness ==
    /\ \E id, next \in Ids :
           /\ id < next
           /\ msgs[id].timer = "stopped" /\ msgs[next].path = "scheduled"
           /\ msgs[id].responses = <<EmptyList>>
    /\ \E id \in Ids :
           /\ id < Len(msgs)
           /\ msgs[id].timer = "stopped" /\ msgs[id + 1].path = "duplicate"

\* where executeCompletion stands before its backend call
Checking == {"checkID", "checkBuffer", "checkCtx"}

\* C26: the backend is called for a request only after its timer fired and
\* the three checks passed, each when it was made: the identity was the
\* current one, the document was in the store with a version not greater
\* than the captured one, the context was not cancelled; a request that
\* fails a check gets one empty response and calls no backend
C26_BackendOnlyAfterChecks ==
    [][ \A id \in Ids :
          LET m == msgs[id]
              n == msgs'[id]
          IN  /\ (m.pc # "checkID" /\ n.pc = "checkID") =>
                     (m.timer = "armed" /\ n.timer = "fired")
              /\ (m.pc # "checkBuffer" /\ n.pc = "checkBuffer") =>
                     (m.pc = "checkID" /\ h.requestID = m.reqID)
              /\ (m.pc # "checkCtx" /\ n.pc = "checkCtx") =>
                     (m.pc = "checkBuffer" /\ buf.open /\ buf.version <= m.version)
              /\ (m.pc # "generating" /\ n.pc = "generating") =>
                     (m.pc = "checkCtx" /\ ~m.cancelled)
              /\ (~m.called /\ n.called) => n.pc = "generating"
              /\ (m.pc \in Checking /\ n.pc = "done") =>
                     (~n.called /\ n.responses = <<EmptyList>>)
              /\ (m.pc = "checkID" /\ n.pc # m.pc /\ h.requestID # m.reqID) => n.pc = "done"
              /\ (m.pc = "checkBuffer" /\ n.pc # m.pc /\ (~buf.open \/ buf.version > m.version))
                     => n.pc = "done"
              /\ (m.pc = "checkCtx" /\ n.pc # m.pc /\ m.cancelled) => n.pc = "done"
      ]_vars

\* one request inside its backend call, and one that was still current and
\* whose document was unchanged, answered empty because its context had
\* been cancelled
C26_Witness ==
    /\ \E id \in Ids : msgs[id].pc = "generating" /\ msgs[id].timer = "fired"
    /\ \E id \in Ids :
           /\ msgs[id].timer = "fired" /\ msgs[id].pc = "done"
           /\ ~msgs[id].notCurrent /\ ~msgs[id].staleAtFire
           /\ msgs[id].cancelled /\ ~msgs[id].called
           /\ msgs[id].responses = <<EmptyList>>

\* the paths on which the event handler answers before scheduleCompletion
EarlyPaths == {"parseError", "noDocument", "skipped"}

\* C31: a trigger answered before scheduling (parse error, document not in
\* the store, rejected by the skip filter) gets its one empty response and
\* leaves the lifecycle state as it was: every field of the handler (cancel
\* function, timer, identity counter, duplicate key and time, pending
\* message) and every earlier request, its timer and its context included
C31_EarlyAnswerLeavesState ==
    [][ (Len(msgs') = Len(msgs) + 1 /\ msgs'[Len(msgs')].path \in EarlyPaths) =>
            /\ h' = h
            /\ \A id \in Ids : msgs'[id] = msgs[id]
            /\ msgs'[Len(msgs')].responses = <<EmptyList>>
            /\ msgs'[Len(msgs')].timer = "none"
      ]_vars

\* a request that waited on its timer when a trigger was rejected by the
\* skip filter, and one that was pending when a trigger failed to parse,
\* have completed with items
C31_Witness ==
    /\ \E id, early \in Ids :
           /\ msgs[early].path = "skipped" /\ msgs[early].overtook = id
           /\ msgs[id].pc = "done" /\ Len(msgs[id].responses) = 1
           /\ msgs[id].responses[1] # EmptyList
    /\ \E id, early \in Ids :
           /\ msgs[early].path = "parseError" /\ msgs[early].overtook = id
           /\ msgs[id].pc = "done" /\ Len(msgs[id].responses) = 1
           /\ msgs[id].responses[1] # EmptyList

\* C32: a trigger suppressed as a duplicate supersedes the previous request
\* (its context is cancelled and, if its timer had not fired, the timer is
\* stopped and the request answered empty), leaves the identity counter,
\* the duplicate key and the last-trigger time unchanged, and schedules
\* nothing: after it the handler records no timer, no cancel function and
\* no pending message, and the duplicate has its one empty response
C32_DuplicateSupersedes ==
    [][ (Len(msgs') = Len(msgs) + 1 /\ msgs'[Len(msgs')].path = "duplicate") =>
            LET new == msgs'[Len(msgs')]
            IN  /\ h.cancelCurrent # 0 => msgs'[h.cancelCurrent].cancelled
                /\ \A id \in Ids :
                       msgs[id].timer = "armed" =>
                           /\ msgs'[id].timer = "stopped"
                           /\ msgs'[id].pc = "done"
                           /\ msgs'[id].responses = <<EmptyList>>
                /\ \A id \in Ids :
                       msgs[id].timer # "armed" =>
                           /\ msgs'[id].timer = msgs[id].timer
                           /\ msgs'[id].responses = msgs[id].responses
                /\ h'.requestID = h.requestID
                /\ h'.lastContent = h.lastContent
                /\ h'.lastTrigger = h.lastTrigger
                /\ h'.timer = 0 /\ h'.cancelCurrent = 0 /\ h'.pendingMsgID = 0
                /\ new.responses = <<EmptyList>> /\ new.pc = "done"
                /\ new.timer = "none" /\ new.reqID = 0 /\ ~new.called
      ]_vars

\* a request stopped in debounce by the duplicate that followed it: both
\* have their empty response and the handler records nothing
C32_Witness ==
    /\ Len(msgs) = 2
    /\ msgs[1].path = "scheduled" /\ msgs[1].timer = "stopped"
    /\ msgs[1].cancelled /\ msgs[1].supersededIn = "debounce"
    /\ msgs[1].responses = <<EmptyList>>
    /\ msgs[2].path = "duplicate" /\ msgs[2].overtook = 1
    /\ msgs[2].responses = <<EmptyList>>
    /\ h.timer = 0 /\ h.cancelCurrent = 0 /\ h.pendingMsgID = 0
    /\ h.requestID = 1 /\ h.lastTrigger = msgs[1].at

(***************************************************************************)
(* The lifecycle with internal faults.  A panic in the goroutine that runs *)
(* executeCompletion unwinds to its deferred recover; a panic in a         *)
(* goroutine the backend spawned for an attempt has no recover on its      *)
(* stack, and the Go runtime ends the process.                             *)
(***************************************************************************)
\* where a panic on executeCompletion's goroutine can start: in the body, in
\* the deferred cancel, in the deferred progress.Stop before its final
\* notification is written, and in Stop after it is written
PanicPoints == {"body", "cancel", "stopEntry", "stopExit"}

\* a panic in executeCompletion itself, or in code it calls on its own
\* goroutine, the deferred calls included: the function unwinds through the
\* deferred calls that are still to run.  After a panic in the body during
\* the backend call, or in the deferred cancel, progress.Stop is still to
\* run; after a panic in Stop only the recover is
PanicInExecute(id, point) ==
    /\ proc = "running"
    /\ id \in 1..Len(msgs)
    /\ \/ /\ point = "body"
          /\ Executing(id)
          /\ msgs' = [msgs EXCEPT ![id].fault = "execute",
                                  ![id].defers = IF msgs[id].pc = "generating"
                                                 THEN "stop" ELSE "recover",
                                  ![id].pc = "unwinding"]
       \/ /\ point = "cancel"
          /\ msgs[id].defers = "stop"
          /\ msgs' = [msgs EXCEPT ![id].fault = "execute"]
       \/ /\ point = "stopEntry"
          /\ msgs[id].defers = "stop"
          /\ msgs' = [msgs EXCEPT ![id].fault = "execute", ![id].defers = "recover"]
       \/ /\ point = "stopExit"
          /\ msgs[id].defers = "stop"
          /\ msgs' = [StopProgress(msgs, id)
                          EXCEPT ![id].fault = "execute", ![id].defers = "recover"]
    /\ UNCHANGED <<buf, h, now, pure>>

\* the deferred recover of executeCompletion answers empty
Recover(id) ==
    /\ proc = "running"
    /\ id \in 1..Len(msgs)
    /\ msgs[id].defers = "recover"
    /\ msgs' = [sendEmptyCompletion(msgs, id) EXCEPT ![id].defers = "ran"]
    /\ UNCHANGED <<buf, h, now, pure>>

\* a panic inside the recover closure, before it has answered: recover() has
\* ended the first panic, no deferred recover is left on the goroutine, and
\* the Go runtime ends the process
PanicInRecover(id) ==
    /\ proc = "running"
    /\ id \in 1..Len(msgs)
    /\ msgs[id].defers = "recover"
    /\ msgs' = [msgs EXCEPT ![id].fault = "recover"]
    /\ proc' = "crashed"
    /\ UNCHANGED <<buf, h, now, asm, cln, gen, prog, ext, hs>>

\* a panic in an attempt goroutine of the backend, during the request or
\* the cleaning of its response
PanicInAttempt(id) ==
    /\ proc = "running"
    /\ id \in 1..Len(msgs)
    /\ msgs[id].pc = "generating"
    /\ msgs' = [msgs EXCEPT ![id].fault = "attempt"]
    /\ proc' = "crashed"
    /\ UNCHANGED <<buf, h, now, asm, cln, gen, prog, ext, hs>>

FaultNext ==
    \/ proc = "running" /\ Next
    \/ \E id \in 1..MaxMsgs, point \in PanicPoints : PanicInExecute(id, point)
    \/ \E id \in 1..MaxMsgs : Recover(id)
    \/ \E id \in 1..MaxMsgs : PanicInRecover(id)
    \/ \E id \in 1..MaxMsgs : PanicInAttempt(id)

SpecFault == Init /\ [][FaultNext]_vars

\* C17: a panic anywhere in a request's execution, generation, cleaning or
\* assembly, the parallel attempts included, is caught: the message gets
\* exactly one empty response and the handler keeps running
C17_PanicCaught ==
    \A id \in Ids :
        msgs[id].fault # "none" =>
            /\ proc = "running"
            /\ Len(msgs[id].responses) <= 1
            /\ ~Unwinding(id) => msgs[id].responses = <<EmptyList>>

(***************************************************************************)
(* The assembler on its own: buildCompletionItem applied to one candidate  *)
(* at one cursor position, and the editor applying the item it returns.    *)
(***************************************************************************)
\* the longest generated candidate
MaxHintLen == 3

AsmTextNext == <<"a", "b", "}", "\n", "f", "u", "n", "c", " ", "n", "e", "x", "t", "(", ")", " ", "{">>

AsmTextParen == <<"a", "b", "}", ")", "\n", "c">>

AsmTextBraces == <<"a", "b", "}", "}", "\n", "c">>

AsmTexts == {AsmTextNext, AsmTextParen, AsmTextBraces}

AsmPositions == {[Line |-> 0, Character |-> 2], [Line |-> 0, Character |-> 3],
                 [Line |-> 1, Character |-> 1], [Line |-> 0, Character |-> 9]}

AsmAlphabet == {"a", "}", ")", " ", "\n"}

StringsUpTo(alphabet, n) == UNION {[1..k -> alphabet] : k \in 0..n}

\* the candidates: executeCompletion passes on only those of 2 characters or
\* more after trimming
AsmHints ==
    {x \in StringsUpTo(AsmAlphabet, MaxHintLen) \cup {HintFoo, HintHi} :
        Len(TrimSpace(x)) >= 2}

AsmInit ==
    /\ LifecycleInit
    /\ hs = Idle
    /\ cln = Idle
    /\ gen = Idle
    /\ prog = Idle
    /\ proc = "running"
    /\ ext = Idle
    /\ asm \in [pc : {"input"}, text : AsmTexts, pos : AsmPositions, hint : AsmHints,
                r : {0}, item : {<<>>}, inserted : {<<>>}, doc : {<<>>}]

\* findOverlapSuffix applied to the candidate as it stands and the text that
\* follows the cursor on its line
AsmFind ==
    /\ asm.pc = "input"
    /\ asm' = [asm EXCEPT
                 !.pc = "found",
                 !.r = findOverlapSuffix(
                           asm.hint,
                           GetContent(asm.text, asm.pos.Line, asm.pos.Character)
                               .ContentImmediatelyAfter)]
    /\ UNCHANGED <<lifecycle, hs, cln, gen, prog, proc, ext>>

\* executeCompletion's call of buildCompletionItem for one hint
AsmBuild ==
    /\ asm.pc = "input"
    /\ asm' = [asm EXCEPT
                 !.pc = "built",
                 !.item = buildCompletionItem(
                              asm.hint,
                              GetContent(asm.text, asm.pos.Line, asm.pos.Character),
                              asm.pos, 0)]
    /\ UNCHANGED <<lifecycle, hs, cln, gen, prog, proc, ext>>

\* the offset of a position in a text; a character past the end of its line
\* counts as the end of the line
EditorOffset(text, pos) ==
    LET lines == SplitLines(text)
        RECURSIVE Skip(_)
        Skip(n) == IF n = 0 THEN 0 ELSE Skip(n - 1) + Len(lines[n]) + 1
    IN  Skip(pos.Line) + minInt(pos.Character, Len(lines[pos.Line + 1]))

\* the text with one edit applied
EditorApply(text, edit) ==
    Slice(text, 0, EditorOffset(text, edit.Start))
        \o edit.NewText
        \o Slice(text, EditorOffset(text, edit.End), Len(text))

\* the editor accepts the item: it applies the insertion, and then the
\* additional edits to the text that results
AsmApply ==
    /\ asm.pc = "built"
    /\ LET inserted == EditorApply(asm.text, asm.item.TextEdit)
           edits == asm.item.AdditionalTextEdits
       IN  asm' = [asm EXCEPT
                     !.pc = "applied",
                     !.inserted = inserted,
                     !.doc = IF edits = <<>> THEN inserted
                             ELSE EditorApply(inserted, edits[1])]
    /\ UNCHANGED <<lifecycle, hs, cln, gen, prog, proc, ext>>

AsmNext == AsmFind \/ AsmBuild \/ AsmApply

SpecAsm == AsmInit /\ [][AsmNext]_vars

\* the text the item inserts
AsmInsertion == asm.item.TextEdit.NewText

\* the text that follows the cursor on its line
AsmAfterCursor ==
    LET line == SplitLines(asm.text)[asm.pos.Line + 1]
    IN  SubSeq(line, minInt(asm.pos.Character, Len(line)) + 1, Len(line))

\* the lengths at which a suffix of the insertion is a prefix of the text
\* after the cursor
AsmOverlaps ==
    {k \in 1..minInt(Len(AsmInsertion), Len(AsmAfterCursor)) :
        SubSeq(AsmInsertion, Len(AsmInsertion) - k + 1, Len(AsmInsertion))
            = SubSeq(AsmAfterCursor, 1, k)}

\* where the inserted text ends
AsmInsertEnd ==
    LET off == EditorOffset(asm.text, asm.pos) + Len(AsmInsertion)
        head == SubSeq(asm.inserted, 1, off)
        nl == {i \in 1..off : head[i] = "\n"}
    IN  [Line |-> Cardinality(nl),
         Character |-> IF nl = {} THEN off ELSE off - MaxOf(nl)]

\* C9: when a suffix of the inserted candidate is a prefix of the text after
\* the cursor, the item carries one delete edit that starts where the
\* insertion ends and covers exactly that text of the document, so that
\* the document holds it once after the insertion and the deletion
C9_OverlapDeleted ==
    (asm.pc = "applied" /\ AsmOverlaps # {}) =>
        LET k == MaxOf(AsmOverlaps)
            cut == EditorOffset(asm.text, asm.pos)
            edits == asm.item.AdditionalTextEdits
        IN  /\ Len(edits) = 1
            /\ edits[1].NewText = <<>>
            /\ edits[1].Start = AsmInsertEnd
            /\ edits[1].End = [Line |-> AsmInsertEnd.Line,
                               Character |-> AsmInsertEnd.Character + k]
            /\ Slice(asm.inserted, EditorOffset(asm.inserted, edits[1].Start),
                     EditorOffset(asm.inserted, edits[1].End))
                 = SubSeq(AsmAfterCursor, 1, k)
            /\ asm.doc = Slice(asm.text, 0, cut) \o AsmInsertion
                           \o Slice(asm.text, cut + k, Len(asm.text))

\* the candidate "foo(bar)\n}" before "}\nfunc next() {": the "}" is deleted
\* and the document holds it once
C9_Witness ==
    /\ asm.pc = "applied"
    /\ asm.hint = HintFoo
    /\ asm.text = AsmTextNext
    /\ asm.pos = [Line |-> 0, Character |-> 2]
    /\ Len(asm.item.AdditionalTextEdits) = 1
    /\ asm.doc = <<"a", "b", "f", "o", "o", "(", "b", "a", "r", ")", "\n", "}", "\n", "f", "u", "n", "c", " ", "n", "e", "x", "t", "(", ")", " ", "{">>

\* position p is before position q
PosBefore(p, q) ==
    p.Line < q.Line \/ (p.Line = q.Line /\ p.Character < q.Character)

\* C23: the main edit of an item is an insertion at the cursor (its range is
\* empty); an auxiliary deletion lies on one line, starts after the insertion
\* point, at or after the end of the inserted text, ends within the line it
\* names, and removes only text the user had after the cursor: the text
\* before the cursor and the inserted text stay whole
C23_PureInsertionSafeDeletion ==
    /\ asm.pc \in {"built", "applied"} =>
           /\ asm.item.TextEdit.Start = asm.pos
           /\ asm.item.TextEdit.End = asm.pos
           /\ Len(asm.item.AdditionalTextEdits) <= 1
    /\ asm.pc = "applied" =>
           \A k \in 1..Len(asm.item.AdditionalTextEdits) :
               LET e == asm.item.AdditionalTextEdits[k]
                   n == e.End.Character - e.Start.Character
                   lines == SplitLines(asm.inserted)
                   cut == EditorOffset(asm.text, asm.pos)
               IN  /\ e.NewText = <<>>
                   /\ e.Start.Line = e.End.Line
                   /\ n > 0
                   /\ PosBefore(asm.pos, e.Start)
                   /\ ~PosBefore(e.Start, AsmInsertEnd)
                   /\ e.End.Line + 1 <= Len(lines)
                   /\ e.End.Character <= Len(lines[e.End.Line + 1])
                   /\ Slice(asm.inserted, EditorOffset(asm.inserted, e.Start),
                            EditorOffset(asm.inserted, e.End))
                        = SubSeq(AsmAfterCursor, 1, n)
                   /\ Slice(asm.doc, 0, cut + Len(AsmInsertion))
                        = Slice(asm.text, 0, cut) \o AsmInsertion

\* the candidate "})" before "})": the deletion covers the two characters
\* that follow the inserted text on the cursor line
C23_Witness ==
    /\ asm.pc = "applied"
    /\ asm.text = AsmTextParen
    /\ asm.pos = [Line |-> 0, Character |-> 2]
    /\ asm.hint = <<"}", ")">>
    /\ asm.item.AdditionalTextEdits =
           <<[Start |-> [Line |-> 0, Character |-> 4],
              End |-> [Line |-> 0, Character |-> 6],
              NewText |-> <<>>]>>
    /\ asm.doc = AsmTextParen

\* the number of line breaks in a text
CountNewlines(s) == Cardinality({i \in 1..Len(s) : s[i] = "\n"})

\* the text behind the last line break of a text
AfterLastNewline(s) ==
    LET nl == {i \in 1..Len(s) : s[i] = "\n"}
    IN  IF nl = {} THEN s ELSE SubSeq(s, MaxOf(nl) + 1, Len(s))

\* the end of the insertion by the arithmetic over the inserted text's own
\* line breaks
AsmArithmeticEnd ==
    [Line |-> asm.pos.Line + CountNewlines(AsmInsertion),
     Character |-> Len(AfterLastNewline(AsmInsertion))
                   + (IF CountNewlines(AsmInsertion) = 0
                      THEN asm.pos.Character ELSE 0)]

\* the lengths at which a suffix of x is a prefix of y
Overlaps(x, y) ==
    {k \in 1..minInt(Len(x), Len(y)) :
        SubSeq(x, Len(x) - k + 1, Len(x)) = SubSeq(y, 1, k)}

\* C28: with t the hint without its trailing spaces and tabs, the result r
\* of findOverlapSuffix(hint, suffix) is at least 0 and at most the shorter of
\* the two lengths, the last r characters of t are the first r characters of
\* suffix, no larger length has that property, and r is 0 for an empty
\* suffix; the item carries a delete edit exactly when r > 0 for the text it
\* inserts, of length r, starting at the end position of the insertion
C28_LongestOverlapDeleted ==
    /\ asm.pc = "found" =>
           LET t == TrimRight(asm.hint, {" ", "\t"})
               s == AsmAfterCursor
           IN  /\ asm.r >= 0
               /\ asm.r <= minInt(Len(asm.hint), Len(s))
               /\ asm.r <= Len(t)
               /\ SubSeq(t, Len(t) - asm.r + 1, Len(t)) = SubSeq(s, 1, asm.r)
               /\ \A k \in Overlaps(t, s) : k <= asm.r
               /\ s = <<>> => asm.r = 0
    /\ asm.pc \in {"built", "applied"} =>
           LET hits == Overlaps(TrimRight(AsmInsertion, {" ", "\t"}), AsmAfterCursor)
               edits == asm.item.AdditionalTextEdits
           IN  /\ Len(edits) = (IF hits = {} THEN 0 ELSE 1)
               /\ hits # {} =>
                      /\ edits[1].NewText = <<>>
                      /\ edits[1].Start = AsmArithmeticEnd
                      /\ edits[1].End =
                             [Line |-> AsmArithmeticEnd.Line,
                              Character |-> AsmArithmeticEnd.Character + MaxOf(hits)]

\* the candidate "}} " before "}}": the result is 2 although one "}" matches
\* as well, and the trailing space is not compared
C28_Witness ==
    /\ asm.pc = "found"
    /\ asm.text = AsmTextBraces
    /\ asm.pos = [Line |-> 0, Character |-> 2]
    /\ asm.hint = <<"}", "}", " ">>
    /\ asm.r = 2

\* C29: the end position of the insertion, which the item carries as the
\* start of its delete edit, has the cursor line plus the number of line
\* breaks in the inserted text as its line, and the length of the inserted
\* text's last line as its column, with the cursor column added only when
\* the inserted text has no line break
C29_EndFollowsLineBreaks ==
    asm.pc \in {"built", "applied"} =>
        \A k \in 1..Len(asm.item.AdditionalTextEdits) :
            LET start == asm.item.AdditionalTextEdits[k].Start
                n == CountNewlines(AsmInsertion)
                last == Len(AfterLastNewline(AsmInsertion))
            IN  /\ start.Line = asm.pos.Line + n
                /\ n = 0 => start.Character = last + asm.pos.Character
                /\ n > 0 => start.Character = last

\* "foo(bar)\n}" inserted at line 0, column 2: the insertion ends on line 1
\* at column 1, the cursor column left out
C29_Witness ==
    /\ asm.pc = "built"
    /\ asm.text = AsmTextNext
    /\ asm.pos = [Line |-> 0, Character |-> 2]
    /\ asm.hint = HintFoo
    /\ Len(asm.item.AdditionalTextEdits) = 1
    /\ asm.item.AdditionalTextEdits[1].Start = [Line |-> 1, Character |-> 1]

(***************************************************************************)
(* The cleaner on its own: cln holds one raw candidate with its context,   *)
(* the result of cleaning it, and the result of cleaning that result.      *)
(***************************************************************************)
\* the longest generated raw candidate
MaxRawLen == 3

CleanAlphabet == {"a", "b", " ", "\n", Backtick}

RawFenced == <<Backtick, Backtick, Backtick, "g", "o", "\n", "a", "b", "\n", Backtick, Backtick, Backtick>>

RawChat == <<"C", "o", "d", "e", ":", " ", "a", "b">>

RawToken == <<"a", "b", "<", "|", "x">>

RawEcho == <<"x", " ", ":", "=", " ", "a", "b">>

RawRepeat == <<"a", "b", "\n", "f", "o", "o", "(", "b", ")">>

RawIndented == <<" ", "\n", "a", "b">>

CleanRaws ==
    StringsUpTo(CleanAlphabet, MaxRawLen)
        \cup {RawFenced, RawChat, RawToken, RawEcho, RawRepeat, RawIndented}

BeforeAssign == <<"x", " ", ":", "=", " ">>

BeforeBlock == <<"i", "f", " ", "a", " ", "{", "\n">>

CleanBefores == {<<>>, <<"a">>, BeforeAssign, BeforeBlock}

AfterCall == <<"f", "o", "o", "(", "b", ")">>

AfterClose == <<"}", "\n", "a", "b">>

CleanAfters == {<<>>, AfterCall, AfterClose}

CleanInit ==
    /\ LifecycleInit
    /\ hs = Idle
    /\ asm = Idle
    /\ gen = Idle
    /\ prog = Idle
    /\ proc = "running"
    /\ ext = Idle
    /\ cln \in [pc : {"input"}, raw : CleanRaws, before : CleanBefores,
                after : CleanAfters, once : {<<>>}, twice : {<<>>}]

\* an attempt's call of cleanCompletion on the response of the backend
CleanOnce ==
    /\ cln.pc = "input"
    /\ cln' = [cln EXCEPT !.pc = "once",
                          !.once = cleanCompletion(cln.raw, cln.before, cln.after)]
    /\ UNCHANGED <<lifecycle, hs, asm, gen, prog, proc, ext>>

\* cleanCompletion called on its own output, in the same context
CleanTwice ==
    /\ cln.pc = "once"
    /\ cln' = [cln EXCEPT !.pc = "twice",
                          !.twice = cleanCompletion(cln.once, cln.before, cln.after)]
    /\ UNCHANGED <<lifecycle, hs, asm, gen, prog, proc, ext>>

CleanNext == CleanOnce \/ CleanTwice

SpecClean == CleanInit /\ [][CleanNext]_vars

\* C10: cleaning is idempotent: for every raw candidate and every context,
\* cleaning the cleaned candidate again in the same context changes nothing
C10_CleanerIdempotent ==
    cln.pc = "twice" => cln.twice = cln.once

\* the characters of s that are not white space
NonWhitespace(s) == {i \in 1..Len(s) : s[i] \notin WhiteSpace}

\* C30: for every raw candidate and every context, the output of
\* cleanCompletion is the empty string, or it starts with no newline, space
\* or tab, ends with no space, tab or newline, and holds at least 2
\* characters that are not white space
C30_CleanOutputTrimmed ==
    cln.pc = "once" =>
        \/ cln.once = <<>>
        \/ /\ cln.once[1] \notin {"\n", " ", "\t"}
           /\ cln.once[Len(cln.once)] \notin {" ", "\t", "\n"}
           /\ Cardinality(NonWhitespace(cln.once)) >= 2


(***************************************************************************)
(* The generation backend: one call of OllamaProvider.Completion.  The     *)
(* call spawns one goroutine per suggestion; each sends exactly one result *)
(* on a channel buffered for all of them; a further goroutine closes the   *)
(* channel when the wait group is at zero; the caller collects until the   *)
(* channel is closed and drained.                                          *)
(***************************************************************************)
MaxAttempts == 3

\* the responses the inference endpoint gives in this model
RawPlain == <<"a", "b">>

RawOther == <<"c", "d">>

RawShort == <<"a">>

GenRaws == {<<>>, RawPlain, RawFenced, RawOther, RawShort}

\* what doRequest or json.Unmarshal can fail with while the context is live
RequestErrors == {"transport", "status", "parse"}

NoError == "nil"

\* ctx.Err() of a context that is done
CtxErr(ctx) == IF ctx = "deadline" THEN "deadline exceeded" ELSE "canceled"

completionResult(idx, completion, err) ==
    [index |-> idx, completion |-> completion, err |-> err]

\* the attempt goroutine once the response body is parsed
AttemptResult(idx, response, before, after) ==
    IF response = <<>>
    THEN completionResult(idx, <<>>, "empty response")
    ELSE LET completion == cleanCompletion(response, before, after)
         IN  IF completion = <<>>
             THEN completionResult(idx, <<>>, "empty after cleaning")
             ELSE completionResult(idx, completion, NoError)

\* a collect loop that appends every successful result
Collect_NoSeen(acc, result) ==
    IF result.err = NoError /\ result.completion # <<>>
    THEN [acc EXCEPT !.completions = Append(@, result.completion)]
    ELSE acc

\* one iteration of the collect loop over the result channel; skipped holds
\* the attempts logged as duplicates
Collect(acc, result) ==
    IF result.err = NoError /\ result.completion # <<>>
    THEN IF result.completion \notin acc.seen
         THEN [seen |-> acc.seen \cup {result.completion},
               completions |-> Append(acc.completions, result.completion),
               skipped |-> acc.skipped]
         ELSE [acc EXCEPT !.skipped = @ \cup {result.index}]
    ELSE acc

\* a return that reports an error when nothing was collected
ReturnValue_ErrorWhenEmpty(completions) ==
    IF Len(completions) = 0
    THEN [list |-> <<>>, err |-> "no completions"]
    ELSE [list |-> completions, err |-> NoError]

\* what Completion returns after the collect loop
ReturnValue(completions) ==
    IF Len(completions) = 0
    THEN [list |-> <<>>, err |-> NoError]
    ELSE [list |-> completions, err |-> NoError]

NoResult == [index |-> 0 - 1, completion |-> <<>>, err |-> "none"]

\* the sampling temperature of attempt idx, in tenths
TemperatureBase == 2

TemperatureStep == 2

TemperatureCap == 9

Temperature(idx) == minInt(TemperatureBase + idx * TemperatureStep, TemperatureCap)

\* a goroutine of Completion as it is spawned
NewAttempt(idx) ==
    [pc |-> "do", seed |-> idx, temperature |-> Temperature(idx), result |-> NoResult]

\* a call that makes one attempt whatever the number of suggestions asked
GenStart_OneAttempt(numSuggestions, before, after) ==
    [pc |-> "running",
     requested |-> numSuggestions,
     numSuggestions |-> 1,
     before |-> before,
     after |-> after,
     attempt |-> [i \in 0..0 |-> NewAttempt(i)],
     resultChan |-> <<>>,
     capacity |-> 1,
     received |-> 0,
     closed |-> FALSE,
     ctx |-> "live",
     acc |-> [seen |-> {}, completions |-> <<>>, skipped |-> {}],
     ret |-> [list |-> <<>>, err |-> "none"]]

\* the state of a call right after the goroutines are spawned
GenStart(numSuggestions, before, after) ==
    LET count == IF numSuggestions < 1 THEN 1 ELSE numSuggestions
    IN  [pc |-> "running",
         requested |-> numSuggestions,
         numSuggestions |-> count,
         before |-> before,
         after |-> after,
         attempt |-> [i \in 0..(count - 1) |-> NewAttempt(i)],
         resultChan |-> <<>>,
         capacity |-> count,
         received |-> 0,
         closed |-> FALSE,
         ctx |-> "live",
         acc |-> [seen |-> {}, completions |-> <<>>, skipped |-> {}],
         ret |-> [list |-> <<>>, err |-> "none"]]

GenInit ==
    /\ LifecycleInit
    /\ hs = Idle
    /\ asm = Idle
    /\ cln = Idle
    /\ prog = Idle
    /\ proc = "running"
    /\ ext = Idle
    /\ gen \in {GenStart(n, BeforeAssign, <<>>) : n \in 0..MaxAttempts}

GenIdx == IF gen.pc = "idle" THEN {} ELSE DOMAIN gen.attempt

\* the attempt puts its one result on the channel; a send waits while the
\* buffer is full
GenSend(idx, result) ==
    /\ Len(gen.resultChan) < gen.capacity
    /\ gen' = [gen EXCEPT !.attempt[idx].pc = "sent",
                          !.attempt[idx].result = result,
                          !.resultChan = Append(@, result)]

\* doRequest up to the return of client.Do
GenDo(idx) ==
    /\ gen.pc = "running"
    /\ gen.attempt[idx].pc = "do"
    /\ IF gen.ctx # "live"
       THEN GenSend(idx, completionResult(idx, <<>>, CtxErr(gen.ctx)))
       ELSE \/ GenSend(idx, completionResult(idx, <<>>, "transport"))
            \/ gen' = [gen EXCEPT !.attempt[idx].pc = "read"]
    /\ UNCHANGED <<lifecycle, hs, asm, cln, prog, proc, ext>>

\* doRequest's select between the context and the body, then the rest of
\* the attempt goroutine
GenRead(idx) ==
    /\ gen.pc = "running"
    /\ gen.attempt[idx].pc = "read"
    /\ \/ /\ gen.ctx # "live"
          /\ GenSend(idx, completionResult(idx, <<>>, CtxErr(gen.ctx)))
       \/ \E e \in RequestErrors :
              GenSend(idx, completionResult(idx, <<>>, e))
       \/ \E response \in GenRaws :
              GenSend(idx, AttemptResult(idx, response, gen.before, gen.after))
    /\ UNCHANGED <<lifecycle, hs, asm, cln, prog, proc, ext>>

\* the deferred wg.Done of an attempt
GenWgDone(idx) ==
    /\ gen.pc = "running"
    /\ gen.attempt[idx].pc = "sent"
    /\ gen' = [gen EXCEPT !.attempt[idx].pc = "done"]
    /\ UNCHANGED <<lifecycle, hs, asm, cln, prog, proc, ext>>

\* the channel closed as soon as one attempt has finished
GenClose_AfterFirst ==
    /\ gen.pc = "running"
    /\ ~gen.closed
    /\ \E i \in GenIdx : gen.attempt[i].pc = "done"
    /\ gen' = [gen EXCEPT !.closed = TRUE]
    /\ UNCHANGED <<lifecycle, hs, asm, cln, prog, proc, ext>>

\* wg.Wait returns and the channel is closed
GenClose ==
    /\ gen.pc = "running"
    /\ ~gen.closed
    /\ \A i \in GenIdx : gen.attempt[i].pc = "done"
    /\ gen' = [gen EXCEPT !.closed = TRUE]
    /\ UNCHANGED <<lifecycle, hs, asm, cln, prog, proc, ext>>

\* the collect loop receives the oldest result on the channel
GenCollect ==
    /\ gen.pc = "running"
    /\ gen.resultChan # <<>>
    /\ gen' = [gen EXCEPT !.resultChan = Tail(@),
                          !.received = @ + 1,
                          !.acc = Collect(@, Head(gen.resultChan))]
    /\ UNCHANGED <<lifecycle, hs, asm, cln, prog, proc, ext>>

\* the collect loop ends on the closed, drained channel and Completion returns
GenReturn ==
    /\ gen.pc = "running"
    /\ gen.closed
    /\ gen.resultChan = <<>>
    /\ gen' = [gen EXCEPT !.pc = "returned",
                          !.ret = ReturnValue(gen.acc.completions)]
    /\ UNCHANGED <<lifecycle, hs, asm, cln, prog, proc, ext>>

\* the caller's cancel function is called while the call is in progress
GenCancel ==
    /\ gen.pc = "running"
    /\ gen.ctx = "live"
    /\ gen' = [gen EXCEPT !.ctx = "canceled"]
    /\ UNCHANGED <<lifecycle, hs, asm, cln, prog, proc, ext>>

\* the caller's deadline passes while the call is in progress
GenDeadline ==
    /\ gen.pc = "running"
    /\ gen.ctx = "live"
    /\ gen' = [gen EXCEPT !.ctx = "deadline"]
    /\ UNCHANGED <<lifecycle, hs, asm, cln, prog, proc, ext>>

GenNext ==
    \/ \E idx \in GenIdx : GenDo(idx)
    \/ \E idx \in GenIdx : GenRead(idx)
    \/ \E idx \in GenIdx : GenWgDone(idx)
    \/ GenClose
    \/ GenCollect
    \/ GenReturn
    \/ GenCancel
    \/ GenDeadline

SpecGen == GenInit /\ [][GenNext]_vars

\* the Go scheduler runs every goroutine that can run: an attempt's deferred
\* wg.Done, the goroutine that waits and closes, and the collect loop; the
\* inference endpoint owes no answer
GenFairness ==
    /\ WF_vars(\E idx \in GenIdx : GenWgDone(idx))
    /\ WF_vars(GenClose)
    /\ WF_vars(GenCollect)
    /\ WF_vars(GenReturn)

LiveSpecGen == GenInit /\ [][GenNext]_vars /\ GenFairness

\* the attempts that gave a non-empty cleaned string
Succeeded == {i \in GenIdx : gen.attempt[i].result.err = NoError}

NoRepeat(list) ==
    \A i, j \in 1..Len(list) : list[i] = list[j] => i = j

\* C11: the list Completion returns never holds the same string twice,
\* whatever the order in which the attempts' results arrive; every string an
\* attempt yielded is in the list
C11_ReturnedListUnique ==
    gen.pc = "returned" =>
        /\ NoRepeat(gen.ret.list)
        /\ \A i \in Succeeded :
               \E k \in 1..Len(gen.ret.list) :
                   gen.ret.list[k] = gen.attempt[i].result.completion

\* three attempts, two of them yielding the same string and the third
\* another one: the list holds each string once
C11_Witness ==
    /\ gen.pc = "returned"
    /\ gen.numSuggestions = 3
    /\ Succeeded = {0, 1, 2}
    /\ gen.attempt[0].result.completion = gen.attempt[2].result.completion
    /\ gen.attempt[1].result.completion # gen.attempt[0].result.completion
    /\ Len(gen.ret.list) = 2

\* the attempts are numbered from 0, one per suggestion asked and one when
\* fewer than one is asked; attempt i has seed i
AttemptsAsAsked ==
    /\ DOMAIN gen.attempt = 0..((IF gen.requested < 1 THEN 1 ELSE gen.requested) - 1)
    /\ \A i \in GenIdx : gen.attempt[i].seed = i
    /\ \A i, j \in GenIdx : gen.attempt[i].seed = gen.attempt[j].seed => i = j

\* attempt i sends a failure in this step
FailsNow(i) ==
    /\ gen.attempt[i].result = NoResult
    /\ gen'.attempt[i].result.err \notin {"none", NoError}

\* C27: the call spawns exactly numSuggestions attempts (one when fewer than
\* one is asked), attempt i with seed i; a failing attempt leaves the
\* context and its siblings as they are; every attempt that yields a
\* non-empty cleaned string has that string in the returned list
C27_IndependentAttempts ==
    /\ AttemptsAsAsked
    /\ [][ /\ AttemptsAsAsked'
           /\ \A i \in GenIdx :
                  FailsNow(i) =>
                      /\ gen'.ctx = gen.ctx
                      /\ \A j \in GenIdx \ {i} : gen'.attempt[j] = gen.attempt[j]
           /\ gen'.pc = "returned" =>
                  \A i \in GenIdx :
                      gen'.attempt[i].result.err = NoError =>
                          \E k \in 1..Len(gen'.ret.list) :
                              gen'.ret.list[k] = gen'.attempt[i].result.completion
         ]_vars

\* three attempts, the context live to the end: the first fails in the
\* transport, the other two yield different strings and both are returned
C27_Witness ==
    /\ gen.pc = "returned"
    /\ gen.requested = 3
    /\ gen.ctx = "live"
    /\ gen.attempt[0].result.err = "transport"
    /\ Succeeded = {1, 2}
    /\ Len(gen.ret.list) = 2

\* the attempts that have sent their result
Sent == {i \in GenIdx : gen.attempt[i].pc \in {"sent", "done"}}

\* a step of an attempt, of the closing goroutine or of the collect loop
GenProgress ==
    \/ \E idx \in GenIdx : GenDo(idx) \/ GenRead(idx) \/ GenWgDone(idx)
    \/ GenClose
    \/ GenCollect
    \/ GenReturn

\* the channel holds one result of every attempt that has sent and was not yet
\* received, and has room for the result of every attempt that has not sent
GenJoinInv ==
    gen.pc # "idle" =>
        /\ gen.capacity = Cardinality(GenIdx)
        /\ gen.received + Len(gen.resultChan) = Cardinality(Sent)
        /\ \A k, l \in 1..Len(gen.resultChan) :
               gen.resultChan[k].index = gen.resultChan[l].index => k = l
        /\ \A k \in 1..Len(gen.resultChan) :
               LET i == gen.resultChan[k].index
               IN  i \in Sent /\ gen.attempt[i].result = gen.resultChan[k]
        /\ \A i \in GenIdx \ Sent :
               /\ gen.attempt[i].result = NoResult
               /\ Len(gen.resultChan) < gen.capacity
               /\ ~gen.closed
        /\ gen.closed => \A i \in GenIdx : gen.attempt[i].pc = "done"
        /\ gen.pc = "returned" =>
               /\ gen.closed
               /\ gen.resultChan = <<>>
               /\ gen.received = gen.capacity
        /\ gen.pc = "running" => ENABLED GenProgress

\* C33: every attempt sends exactly one result on the result channel, whose
\* capacity is the number of attempts, so that a send finds room and an open
\* channel; the channel is closed once, after every attempt has sent and
\* finished; no state of the call is a deadlock, and once every attempt has
\* sent its result Completion returns, in every interleaving
C33_FanOutJoin ==
    /\ []GenJoinInv
    /\ [][ /\ gen.closed => gen'.closed
           /\ \A i \in Sent : gen'.attempt[i].result = gen.attempt[i].result
           /\ gen'.received >= gen.received
         ]_vars
    /\ (Sent = GenIdx) ~> (gen.pc = "returned")

\* three attempts have sent before the collect loop received anything: the
\* channel is full and nothing waits
C33_Witness ==
    /\ gen.pc = "running"
    /\ gen.capacity = 3
    /\ Len(gen.resultChan) = 3
    /\ Sent = {0, 1, 2}
    /\ gen.received = 0
    /\ ~gen.closed

\* C14: when the cancellation signal or the deadline fires while the call
\* is in progress, Completion returns a non-nil error that says cancelled
C14_CancelledMidCallFails ==
    (gen.pc = "returned" /\ gen.ctx # "live") =>
        gen.ret.err \in {"canceled", "deadline exceeded"}

\* the attempts whose result the collect loop did not append
NotCollected ==
    {i \in GenIdx : gen.attempt[i].result.err # NoError} \cup gen.acc.skipped

\* C15: Completion never returns an error; when every attempt failed,
\* yielded an empty or uncleanable response, or was dropped as the duplicate
\* of another attempt, it returns an empty list; the list is empty only when
\* no attempt yielded a non-empty cleaned string
C15_NoErrorEmptyIffNoSuccess ==
    gen.pc = "returned" =>
        /\ gen.ret.err = NoError
        /\ NotCollected = GenIdx => gen.ret.list = <<>>
        /\ (gen.ret.list = <<>>) <=> (Succeeded = {})
        /\ Len(gen.ret.list) + Cardinality(gen.acc.skipped) = Cardinality(Succeeded)

\* three attempts that fail for three different reasons (the transport, an
\* empty response, a response that cleans to nothing): empty list, no error
C15_Witness ==
    /\ gen.pc = "returned"
    /\ gen.numSuggestions = 3
    /\ {gen.attempt[i].result.err : i \in GenIdx}
           = {"transport", "empty response", "empty after cleaning"}
    /\ gen.ret = [list |-> <<>>, err |-> NoError]

(***************************************************************************)
(* The progress indicator: one ProgressIndicator from NewProgressIndicator *)
(* through Start, the animate goroutine and Stop.  The ticker's channel    *)
(* holds at most one tick; a second of time passes with every tick.        *)
(***************************************************************************)
MaxTicks == 4

\* the two notifications of the indicator
InProgress(seconds) == [kind |-> "in progress", seconds |-> seconds]

Completed(seconds) == [kind |-> "completed", seconds |-> seconds]

NewProgressIndicator(enabled) ==
    [pc |-> "indicator",
     enabled |-> enabled,
     caller |-> "new",
     animate |-> "none",
     done |-> FALSE,
     cancel |-> FALSE,
     tick |-> FALSE,
     elapsed |-> 0,
     seconds |-> 0,
     final |-> 0,
     sent |-> <<>>,
     afterStop |-> <<>>]

ProgressInit ==
    /\ LifecycleInit
    /\ hs = Idle
    /\ asm = Idle
    /\ cln = Idle
    /\ gen = Idle
    /\ proc = "running"
    /\ ext = Idle
    /\ prog \in {NewProgressIndicator(enabled) : enabled \in BOOLEAN}

\* SendShowMessage; afterStop keeps what is sent once Stop has returned
SendShowMessage(p, message) ==
    [p EXCEPT !.sent = Append(@, message),
              !.afterStop = IF p.caller = "stopped" THEN Append(@, message) ELSE @]

\* Start: the context is made and the animate goroutine is spawned
ProgStart ==
    /\ prog.pc # "idle"
    /\ prog.caller = "new"
    /\ prog' = IF ~prog.enabled
               THEN [prog EXCEPT !.caller = "started"]
               ELSE [prog EXCEPT !.caller = "started", !.cancel = TRUE,
                                 !.animate = "select"]
    /\ UNCHANGED <<lifecycle, hs, asm, cln, gen, proc, ext>>

\* a second passes and the ticker puts a tick on its channel, unless the
\* channel still holds the previous one
ProgTick ==
    /\ prog.animate \in {"select", "send"}
    /\ prog.elapsed < MaxTicks
    /\ prog' = [prog EXCEPT !.tick = TRUE, !.elapsed = @ + 1]
    /\ UNCHANGED <<lifecycle, hs, asm, cln, gen, proc, ext>>

\* the select of animate takes the case of the cancelled context
ProgSelectDone ==
    /\ prog.animate = "select"
    /\ prog.done
    /\ prog' = [prog EXCEPT !.animate = "exited"]
    /\ UNCHANGED <<lifecycle, hs, asm, cln, gen, proc, ext>>

\* the select of animate takes the case of the tick and computes the seconds
ProgSelectTick ==
    /\ prog.animate = "select"
    /\ prog.tick
    /\ prog' = [prog EXCEPT !.animate = "send", !.tick = FALSE,
                            !.seconds = prog.elapsed]
    /\ UNCHANGED <<lifecycle, hs, asm, cln, gen, proc, ext>>

\* animate sends the notification it prepared and loops
ProgSend ==
    /\ prog.animate = "send"
    /\ prog' = [SendShowMessage(prog, InProgress(prog.seconds))
                    EXCEPT !.animate = "select"]
    /\ UNCHANGED <<lifecycle, hs, asm, cln, gen, proc, ext>>

\* Stop up to the release of the mutex: the context is cancelled once and
\* the elapsed time is read
ProgStopCancel ==
    /\ prog.caller = "started"
    /\ prog' = IF ~prog.enabled
               THEN [prog EXCEPT !.caller = "stopped"]
               ELSE [prog EXCEPT !.caller = "stopping",
                                 !.done = @ \/ prog.cancel,
                                 !.cancel = FALSE,
                                 !.final = prog.elapsed]
    /\ UNCHANGED <<lifecycle, hs, asm, cln, gen, proc, ext>>

\* Stop sends the final notification and returns
ProgStopSend ==
    /\ prog.caller = "stopping"
    /\ prog' = [SendShowMessage(prog, Completed(prog.final))
                    EXCEPT !.caller = "stopped"]
    /\ UNCHANGED <<lifecycle, hs, asm, cln, gen, proc, ext>>

ProgressNext ==
    \/ ProgStart
    \/ ProgTick
    \/ ProgSelectDone
    \/ ProgSelectTick
    \/ ProgSend
    \/ ProgStopCancel
    \/ ProgStopSend

SpecProgress == ProgressInit /\ [][ProgressNext]_vars

\* C12: once Stop has returned, animate sends no further in-progress
\* notification, in every interleaving of the ticker, Stop and animate
C12_NoProgressAfterStop ==
    prog.pc # "idle" => prog.afterStop = <<>>

(***************************************************************************)
(* The extractor on its own: one call of util.GetContent with a line and a *)
(* column that may lie outside the document.                               *)
(***************************************************************************)
MaxLine == 3

MaxColumn == 3

TextTwo == <<"a", "b", "\n", "c">>

TextTrailing == <<"a", "\n">>

ExtTexts == {<<>>, <<"a", "b">>, TextTwo, TextTrailing, TextMain}

ExtInit ==
    /\ LifecycleInit
    /\ hs = Idle
    /\ asm = Idle
    /\ cln = Idle
    /\ gen = Idle
    /\ prog = Idle
    /\ proc = "running"
    /\ ext \in [pc : {"input"}, contents : ExtTexts,
                line : (0 - 1)..MaxLine, column : (0 - 1)..MaxColumn]

\* the call returns its ContentParts, or panics on a slice out of bounds
ExtGetContent ==
    /\ ext.pc = "input"
    /\ ext' = IF GetContentPanics(ext.contents, ext.line, ext.column)
              THEN [pc |-> "panic", contents |-> ext.contents,
                    line |-> ext.line, column |-> ext.column]
              ELSE [pc |-> "returned", contents |-> ext.contents,
                    line |-> ext.line, column |-> ext.column,
                    parts |-> GetContent(ext.contents, ext.line, ext.column)]
    /\ UNCHANGED <<lifecycle, hs, asm, cln, gen, prog, proc>>

ExtNext == ExtGetContent

SpecExtract == ExtInit /\ [][ExtNext]_vars

\* C21: GetContent returns a result for every text, line and column, a line
\* or column below 0 or past the end included
C21_GetContentNeverFails ==
    ext.pc # "panic"

(***************************************************************************)
(* Two handlers and several documents.  Each handler is a                  *)
(* CompletionHandler of its own; the documents are in one store.  hs holds *)
(* the fields of every handler, the requests received in order of receipt  *)
(* (a request's id is its index), and the clock.                           *)
(***************************************************************************)
\* requests received in one run, over both handlers
MaxReqs == 3

Handlers == {1, 2}

DocB == <<"x", " ", "=", " ", "y">>

\* svc.Buffers: the documents in the store, which do not change here
Buffers ==
    [u \in {"a.go", "b.go", "c.go"} |->
        [text |-> CASE u = "a.go" -> TextMain
                    [] u = "b.go" -> DocB
                    [] OTHER -> TextBrace,
         version |-> 1]]

\* the URIs a trigger can name; the last is not in the store
URIs == DOMAIN Buffers \cup {"missing.go"}

\* the cursor of every trigger: the end of line 0
HandlerCursor == [Line |-> 0, Character |-> 13]

\* NewCompletionHandler
NewCompletionHandler ==
    [cancelCurrent |-> 0, timer |-> 0, requestID |-> 0,
     lastTrigger |-> ZeroTime, lastContent |-> <<>>, pendingMsgID |-> 0]

\* a request as handler k receives it
NewReq(k, uri) ==
    [handler |-> k, uri |-> uri, pos |-> HandlerCursor, path |-> "received",
     pc |-> "handler", timer |-> "none", version |-> 0, reqID |-> 0,
     cancelled |-> FALSE, called |-> FALSE, responses |-> <<>>]

HandlersInit ==
    /\ LifecycleInit
    /\ asm = Idle
    /\ cln = Idle
    /\ gen = Idle
    /\ prog = Idle
    /\ proc = "running"
    /\ ext = Idle
    /\ hs = [pc |-> "handlers",
             handler |-> [k \in Handlers |-> NewCompletionHandler],
             reqs |-> <<>>,
             clock |-> 0]

\* the first half of scheduleCompletion on the fields hr of one handler
CancelPreviousOn(hr, rs) ==
    LET c == hr.cancelCurrent
        t == hr.timer
        rs1 == IF c # 0 THEN [rs EXCEPT ![c].cancelled = TRUE] ELSE rs
        stopped == t # 0 /\ rs1[t].timer = "armed"
        rs2 == IF stopped THEN [rs1 EXCEPT ![t].timer = "stopped"] ELSE rs1
    IN  IF stopped /\ hr.pendingMsgID # 0
        THEN sendEmptyCompletion(rs2, hr.pendingMsgID)
        ELSE rs2

\* scheduleCompletion touching the previous request only when the new one
\* is for the same document
scheduleCompletionOn_PerDocument(hr, rs, id, content, t) ==
    LET same == hr.pendingMsgID # 0 /\ rs[hr.pendingMsgID].uri = rs[id].uri
        rs1 == IF same THEN CancelPreviousOn(hr, rs) ELSE rs
        contentKey == content.ContentBefore
    IN  IF hr.lastContent = contentKey /\ t - hr.lastTrigger < DupWindow
        THEN [h |-> [hr EXCEPT !.cancelCurrent = 0, !.timer = 0, !.pendingMsgID = 0],
              reqs |-> sendEmptyCompletion([rs1 EXCEPT ![id].path = "duplicate"], id)]
        ELSE [h |-> [cancelCurrent |-> id, timer |-> id,
                     requestID |-> hr.requestID + 1,
                     lastTrigger |-> t, lastContent |-> contentKey,
                     pendingMsgID |-> id],
              reqs |-> [rs1 EXCEPT ![id].path = "scheduled",
                                   ![id].pc = "debounce",
                                   ![id].timer = "armed",
                                   ![id].reqID = hr.requestID + 1,
                                   ![id].version = Buffers[rs[id].uri].version]]

\* scheduleCompletion on the fields hr of one handler, at time t: the
\* handler's fields and the requests as it leaves them
scheduleCompletionOn(hr, rs, id, content, t) ==
    LET rs1 == CancelPreviousOn(hr, rs)
        contentKey == content.ContentBefore
    IN  IF hr.lastContent = contentKey /\ t - hr.lastTrigger < DupWindow
        THEN [h |-> [hr EXCEPT !.cancelCurrent = 0, !.timer = 0, !.pendingMsgID = 0],
              reqs |-> sendEmptyCompletion([rs1 EXCEPT ![id].path = "duplicate"], id)]
        ELSE [h |-> [cancelCurrent |-> id, timer |-> id,
                     requestID |-> hr.requestID + 1,
                     lastTrigger |-> t, lastContent |-> contentKey,
                     pendingMsgID |-> id],
              reqs |-> [rs1 EXCEPT ![id].path = "scheduled",
                                   ![id].pc = "debounce",
                                   ![id].timer = "armed",
                                   ![id].reqID = hr.requestID + 1,
                                   ![id].version = Buffers[rs[id].uri].version]]

ReqIds == IF hs.pc = "idle" THEN {} ELSE 1..Len(hs.reqs)

\* the completion event handler of handler k, for a message that names uri
\* and arrives delay milliseconds after the previous one
HandlerTrigger(k, parsed, uri, delay) ==
    /\ hs.pc = "handlers"
    /\ Len(hs.reqs) < MaxReqs
    /\ LET id == Len(hs.reqs) + 1
           t == hs.clock + delay
           rs == Append(hs.reqs, NewReq(k, uri))
       IN  IF ~parsed
           THEN hs' = [hs EXCEPT
                         !.clock = t,
                         !.reqs = sendEmptyCompletion(
                                      [rs EXCEPT ![id].path = "parseError"], id)]
           ELSE IF uri \notin DOMAIN Buffers
           THEN hs' = [hs EXCEPT
                         !.clock = t,
                         !.reqs = sendEmptyCompletion(
                                      [rs EXCEPT ![id].path = "noDocument"], id)]
           ELSE LET content == GetContent(Buffers[uri].text, HandlerCursor.Line,
                                          HandlerCursor.Character)
                    r == scheduleCompletionOn(hs.handler[k], rs, id, content, t)
                IN  IF shouldSkip(content)
                    THEN hs' = [hs EXCEPT
                                  !.clock = t,
                                  !.reqs = sendEmptyCompletion(
                                               [rs EXCEPT ![id].path = "skipped"], id)]
                    ELSE hs' = [hs EXCEPT !.clock = t,
                                          !.handler[k] = r.h,
                                          !.reqs = r.reqs]
    /\ UNCHANGED <<lifecycle, asm, cln, gen, prog, proc, ext>>

\* the debounce timer of request id fires
HandlerTimerFire(id) ==
    /\ id \in ReqIds
    /\ hs.reqs[id].timer = "armed"
    /\ hs' = [hs EXCEPT !.reqs[id].timer = "fired", !.reqs[id].pc = "checkID"]
    /\ UNCHANGED <<lifecycle, asm, cln, gen, prog, proc, ext>>

\* executeCompletion up to the backend call: the request's identity against
\* its handler's counter, the document, the context
HandlerCheck(id) ==
    /\ id \in ReqIds
    /\ LET r == hs.reqs[id]
       IN  \/ /\ r.pc = "checkID"
              /\ hs' = [hs EXCEPT
                          !.reqs = IF hs.handler[r.handler].requestID # r.reqID
                                   THEN sendEmptyCompletion(@, id)
                                   ELSE [@ EXCEPT ![id].pc = "checkBuffer"]]
           \/ /\ r.pc = "checkBuffer"
              /\ hs' = [hs EXCEPT
                          !.reqs = IF \/ r.uri \notin DOMAIN Buffers
                                      \/ Buffers[r.uri].version > r.version
                                   THEN sendEmptyCompletion(@, id)
                                   ELSE [@ EXCEPT ![id].pc = "checkCtx"]]
           \/ /\ r.pc = "checkCtx"
              /\ hs' = [hs EXCEPT
                          !.reqs = IF r.cancelled
                                   THEN sendEmptyCompletion(@, id)
                                   ELSE [@ EXCEPT ![id].pc = "generating",
                                                  ![id].called = TRUE]]
    /\ UNCHANGED <<lifecycle, asm, cln, gen, prog, proc, ext>>

\* the backend call returns hints without error and executeCompletion answers
HandlerBackendReturn(id, hints) ==
    /\ id \in ReqIds
    /\ hs.reqs[id].pc = "generating"
    /\ LET r == hs.reqs[id]
           content == GetContent(Buffers[r.uri].text, r.pos.Line, r.pos.Character)
       IN  hs' = [hs EXCEPT !.reqs = Send(@, id, BuildItems(hints, content, r.pos))]
    /\ UNCHANGED <<lifecycle, asm, cln, gen, prog, proc, ext>>

\* the backend call returns an error and executeCompletion answers empty
HandlerBackendFail(id) ==
    /\ id \in ReqIds
    /\ hs.reqs[id].pc = "generating"
    /\ hs' = [hs EXCEPT !.reqs = sendEmptyCompletion(@, id)]
    /\ UNCHANGED <<lifecycle, asm, cln, gen, prog, proc, ext>>

HandlersNext ==
    \/ \E k \in Handlers, parsed \in BOOLEAN, uri \in URIs, delay \in Delays :
          HandlerTrigger(k, parsed, uri, delay)
    \/ \E id \in 1..MaxReqs : HandlerTimerFire(id)
    \/ \E id \in 1..MaxReqs : HandlerCheck(id)
    \/ \E id \in 1..MaxReqs, hints \in {<<>>, <<HintHi>>} : HandlerBackendReturn(id, hints)
    \/ \E id \in 1..MaxReqs : HandlerBackendFail(id)

SpecHandlers == HandlersInit /\ [][HandlersNext]_vars

\* the requests of handler k
ReqsOf(k) == {id \in ReqIds : hs.reqs[id].handler = k}

\* the requests of handler k whose response is still owed
OwedOf(k) == {id \in ReqsOf(k) : hs.reqs[id].pc # "done"}

\* this step receives a request that handler k passes to scheduleCompletion
Accepts(k) ==
    /\ Len(hs'.reqs) = Len(hs.reqs) + 1
    /\ hs'.reqs[Len(hs'.reqs)].handler = k
    /\ hs'.reqs[Len(hs'.reqs)].path \in {"scheduled", "duplicate"}

\* C34: supersession and the pending slot are per handler, not per document:
\* at most one request of a handler has an unfired debounce timer; a trigger
\* a handler accepts, for whatever document, cancels every request of that
\* handler whose response is still owed, whatever its document, and stops
\* and answers the one that waits on its timer; no step changes the fields
\* or the requests of more than one handler
C34_SupersessionPerHandler ==
    /\ [](\A k \in Handlers :
             Cardinality({id \in ReqsOf(k) : hs.reqs[id].timer = "armed"}) <= 1)
    /\ [][ /\ \A k \in Handlers :
                  Accepts(k) =>
                      \A id \in OwedOf(k) :
                          /\ hs'.reqs[id].cancelled
                          /\ hs.reqs[id].timer = "armed" =>
                                 /\ hs'.reqs[id].timer = "stopped"
                                 /\ hs'.reqs[id].responses = <<EmptyList>>
           /\ \E k \in Handlers :
                  \A j \in Handlers \ {k} :
                      /\ hs'.handler[j] = hs.handler[j]
                      /\ \A id \in ReqsOf(j) : hs'.reqs[id] = hs.reqs[id]
         ]_vars

\* handler 1 has a request for a.go stopped in debounce by its trigger for
\* b.go, while the request of handler 2 for a.go, received in between, has
\* completed with items
C34_Witness ==
    /\ hs.pc = "handlers"
    /\ Len(hs.reqs) = 3
    /\ hs.reqs[1].handler = 1 /\ hs.reqs[1].uri = "a.go"
    /\ hs.reqs[1].timer = "stopped" /\ hs.reqs[1].cancelled
    /\ hs.reqs[1].responses = <<EmptyList>>
    /\ hs.reqs[2].handler = 2 /\ hs.reqs[2].uri = "a.go"
    /\ hs.reqs[2].pc = "done" /\ ~hs.reqs[2].cancelled
    /\ Len(hs.reqs[2].responses) = 1 /\ hs.reqs[2].responses[1] # EmptyList
    /\ hs.reqs[3].handler = 1 /\ hs.reqs[3].uri = "b.go"
    /\ hs.reqs[3].path = "scheduled" /\ hs.reqs[3].timer = "armed"

====
